---- MODULE Spec2Model ----
(***************************************************************************)
(* A model of the aivim editing engine (crates/aivim-core): text buffer,   *)
(* cursor, motions, edits, registers and the Editor with its snapshot      *)
(* undo/redo.  Texts are sequences of one-character strings; character     *)
(* offsets, lines and columns are 0-based as in the source.                *)
(***************************************************************************)
EXTENDS Integers, Sequences, FiniteSets, TLC

\* ------------------------------------------------------------------ bounds
\* Longest text an initial buffer holds.
MaxLen == 3
\* Number of Editor calls made on each of those texts.
MaxSteps == 1
\* Sequences of calls: longest initial text, and the number of calls when
\* every call may be made (SeqSteps) and when only the calls of an insert and
\* undo session are made (SessionSteps).
SessionLen == 2
SeqSteps == 2
SessionSteps == 3
\* Number of unnamed-register updates in one behaviour of the register manager.
RegSteps == 11
NamedSteps == 4
BufSteps == 2
BufferSteps == 3
CommandSteps == 3
MaxBufferId == 3
SearchSteps == 3
FindSteps == 3
ReplaceLen == 4
ReplaceSteps == 2
ParseSteps == 1
SaveSteps == 3
CursorSteps == 2
VerticalSteps == 3
HorizontalSteps == 2
\* Resolving text objects: longest text, and number of calls on it.
ObjectLen == 3
ObjectSteps == 1
\* Keys pressed in the terminal front end.
KeySteps == 4
\* Calls made across several buffers.
AcrossSteps == 4
\* Calls that go from match to match.
CycleSteps == 3

\* ------------------------------------------------------------- characters
NL == "\n"
\* Characters of the initial texts: a word character, a blank, a
\* punctuation character and the line break.
Alphabet == {"a", " ", ".", NL}
\* Characters typed in Insert mode.
TypedChars == {"b"}

\* char::is_whitespace
is_whitespace(c) == c \in {" ", "\t", NL}
\* c.is_alphanumeric() || c == '_'
is_word_char(c) == c \in {"a", "b", "é"}
\* !c.is_alphanumeric() && c != '_' && !c.is_whitespace()
is_punct(c) == ~is_word_char(c) /\ ~is_whitespace(c)

\* Option<T>
None == << >>
Some(x) == << x >>
IsSome(o) == o # << >>
Unwrap(o) == o[1]

Min(a, b) == IF a <= b THEN a ELSE b
Max(a, b) == IF a >= b THEN a ELSE b
\* usize::saturating_sub
SatSub(a, b) == IF a >= b THEN a - b ELSE 0

\* text[lo..hi] and text[lo..] with 0-based offsets
Slice(s, lo, hi) == SubSeq(s, lo + 1, hi)
From(s, lo) == SubSeq(s, lo + 1, Len(s))

\* Number of leading elements of s[k..] that satisfy P (a peekable scan).
Run(s, k, P(_)) ==
  LET stops == {i \in (k + 1)..Len(s) : ~P(s[i])}
  IN IF stops = {} THEN SatSub(Len(s), k)
     ELSE (CHOOSE i \in stops : \A j \in stops : i <= j) - 1 - k

\* Number of trailing elements of s that satisfy P (Vec::pop scan).
RunBack(s, P(_)) ==
  LET stops == {i \in 1..Len(s) : ~P(s[i])}
  IN IF stops = {} THEN Len(s)
     ELSE Len(s) - (CHOOSE i \in stops : \A j \in stops : j <= i)

\* ------------------------------------------------------------------- rope
\* Rope::len_lines: line breaks + 1
len_lines(r) == 1 + Cardinality({i \in 1..Len(r) : r[i] = NL})

\* Rope::line_to_char; ropey panics when line_idx > len_lines
line_to_char_ok(r, l) == l <= len_lines(r)
line_to_char(r, l) ==
  IF l = 0 THEN 0
  ELSE IF l >= len_lines(r) THEN Len(r)
  ELSE CHOOSE i \in 1..Len(r) :
         r[i] = NL /\ Cardinality({j \in 1..i : r[j] = NL}) = l

\* Rope::char_to_line; ropey panics when char_idx > len_chars
char_to_line(r, idx) == Cardinality({j \in 1..Min(idx, Len(r)) : r[j] = NL})

\* Buffer::line, the line with its line break; None past the last line
has_line(r, l) == l < len_lines(r)
line(r, l) == Slice(r, line_to_char(r, l), line_to_char(r, l + 1))
\* Buffer::line_len
line_len(r, l) == IF has_line(r, l) THEN Len(line(r, l)) ELSE 0

\* str::strip_suffix('\n').unwrap_or(..)
strip_nl(s) == IF Len(s) > 0 /\ s[Len(s)] = NL THEN SubSeq(s, 1, Len(s) - 1) ELSE s
\* buffer.line(l).map(to_string).unwrap_or_default(), line break stripped
line_text(r, l) == IF has_line(r, l) THEN strip_nl(line(r, l)) ELSE << >>

\* Rope::insert / Rope::remove on the text
rope_insert(r, idx, t) == Slice(r, 0, idx) \o t \o From(r, idx)
rope_remove(r, lo, hi) == Slice(r, 0, lo) \o From(r, hi)

\* ----------------------------------------------------------------- buffer
\* Buffer::new
Buffer_new(id) ==
  [id |-> id, rope |-> << >>, file_path |-> None, modified |-> FALSE, read_only |-> FALSE]

\* Buffer::from_file, of a file that was read and holds the text
Buffer_from_file(id, path, text) ==
  [id |-> id, rope |-> text, file_path |-> Some(path), modified |-> FALSE,
   read_only |-> FALSE]

\* Buffer::new_with_path
Buffer_new_with_path(id, path) ==
  [id |-> id, rope |-> << >>, file_path |-> Some(path), modified |-> FALSE,
   read_only |-> FALSE]

\* Buffer::insert (and insert_char); rope.insert panics when idx > len_chars
insert_ok(b, idx) == b.read_only \/ idx <= Len(b.rope)
Buffer_insert(b, idx, t) ==
  IF b.read_only THEN b
  ELSE [b EXCEPT !.rope = rope_insert(@, idx, t), !.modified = TRUE]

\* Buffer::insert_char
Buffer_insert_char(b, idx, ch) ==
  IF b.read_only THEN b
  ELSE [b EXCEPT !.rope = rope_insert(@, idx, << ch >>), !.modified = TRUE]

\* Buffer::set_read_only
Buffer_set_read_only(b, read_only) == [b EXCEPT !.read_only = read_only]

\* Buffer::remove: the end offset is clamped; rope.remove panics when the
\* start lies past the clamped end
remove_ok(b, idx, n) == b.read_only \/ idx <= Min(idx + n, Len(b.rope))
Buffer_remove(b, idx, n) ==
  IF b.read_only THEN b
  ELSE [b EXCEPT !.rope = rope_remove(@, idx, Min(idx + n, Len(@))), !.modified = TRUE]

\* Buffer::remove_char: the removed character, None when nothing is removed
remove_char_ret(b, idx) ==
  IF b.read_only \/ idx >= Len(b.rope) THEN None ELSE Some(b.rope[idx + 1])
\* a remove_char that ignores the read_only flag
Buffer_remove_char_unguarded(b, idx) ==
  IF idx >= Len(b.rope) THEN b
  ELSE [b EXCEPT !.rope = rope_remove(@, idx, idx + 1), !.modified = TRUE]
Buffer_remove_char(b, idx) ==
  IF b.read_only \/ idx >= Len(b.rope) THEN b
  ELSE [b EXCEPT !.rope = rope_remove(@, idx, idx + 1), !.modified = TRUE]

\* ----------------------------------------------------------------- cursor
\* Cursor::new
Cursor_new(l, c) == [line |-> l, column |-> c, preferred_column |-> None]
at_origin == Cursor_new(0, 0)

\* Cursor::to_char_idx
to_char_idx_ok(c, r) == line_to_char_ok(r, c.line)
to_char_idx(c, r) == line_to_char(r, c.line) + c.column

\* Cursor::from_char_idx
from_char_idx_ok(r, idx) == idx <= Len(r)
from_char_idx_after_break(r, idx) ==
  LET l == char_to_line(r, idx + 1)
  IN Cursor_new(l, idx - Min(idx, line_to_char(r, l)))
from_char_idx(r, idx) ==
  LET l == char_to_line(r, idx)
  IN Cursor_new(l, idx - line_to_char(r, l))

\* Cursor::update_preferred_column
update_pref(c) == [c EXCEPT !.preferred_column = Some(c.column)]

\* Cursor::move_left(buffer, count)
Cursor_move_left(c, r, count) ==
  update_pref(
    IF c.column >= count THEN [c EXCEPT !.column = @ - count]
    ELSE IF c.line > 0
      THEN [c EXCEPT !.line = @ - 1,
                     !.column = Min(SatSub(line_len(r, c.line - 1), 1),
                                    IF IsSome(c.preferred_column)
                                    THEN Unwrap(c.preferred_column) ELSE 0)]
    ELSE [c EXCEPT !.column = 0])

Cursor_move_right_within(c, r, count) ==
  update_pref([c EXCEPT !.column = Min(@ + count, SatSub(line_len(r, c.line), 1))])

\* Cursor::move_right(buffer, count)
Cursor_move_right(c, r, count) ==
  LET max_col == SatSub(line_len(r, c.line), 1)
  IN update_pref(
       IF c.column + count <= max_col THEN [c EXCEPT !.column = @ + count]
       ELSE IF c.line + 1 < len_lines(r) THEN [c EXCEPT !.line = @ + 1, !.column = 0]
       ELSE [c EXCEPT !.column = max_col])

\* Cursor::ensure_valid
ensure_valid(c, r) ==
  LET l == Min(c.line, SatSub(len_lines(r), 1))
  IN [c EXCEPT !.line = l, !.column = Min(c.column, SatSub(line_len(r, l), 1))]

\* ----------------------------------------------------------------- motion
\* page_down / page_up: half a page
half_page == 10

Motions == {"Left", "Right", "Up", "Down", "LineStart", "LineEnd", "FirstNonBlank",
            "WordForward", "WordBackward", "WordEnd", "WORDForward", "WORDBackward",
            "WORDEnd", "DocumentStart", "DocumentEnd", "PageDown", "PageUp"}

\* motion.rs move_left
move_left(c, r) ==
  IF c.column > 0 THEN update_pref([c EXCEPT !.column = @ - 1]) ELSE c

\* motion.rs move_right
move_right(c, r) ==
  IF c.column < SatSub(Len(line_text(r, c.line)), 1)
  THEN update_pref([c EXCEPT !.column = @ + 1]) ELSE c

\* motion.rs move_up
move_up(c, r) ==
  IF c.line > 0
  THEN [c EXCEPT !.line = @ - 1,
                 !.column = Min(@, SatSub(Len(line_text(r, c.line - 1)), 1))]
  ELSE c

\* motion.rs move_down
move_down(c, r) ==
  IF c.line + 1 < len_lines(r)
  THEN [c EXCEPT !.line = @ + 1,
                 !.column = Min(@, SatSub(Len(line_text(r, c.line + 1)), 1))]
  ELSE c

\* motion.rs move_line_start
move_line_start(c) == update_pref([c EXCEPT !.column = 0])

\* motion.rs move_line_end
move_line_end(c, r) ==
  update_pref([c EXCEPT !.column = SatSub(Len(line_text(r, c.line)), 1)])

\* motion.rs move_first_non_blank
move_first_non_blank(c, r) ==
  LET t == line_text(r, c.line)
      n == Run(t, 0, is_whitespace)
  IN update_pref([c EXCEPT !.column = IF n < Len(t) THEN n ELSE 0])

\* motion.rs move_word_forward_internal
RECURSIVE move_word_forward_internal(_, _, _)
move_word_forward_internal(c, r, cross_line) ==
  LET t == line_text(r, c.line)
      col == c.column
      next_line == [c EXCEPT !.line = @ + 1, !.column = 0]
  IN IF col >= Len(t)
     THEN IF c.line + 1 < len_lines(r)
          THEN move_word_forward_internal(next_line, r, TRUE)
          ELSE c
     ELSE
       LET blanks == Run(t, col, is_whitespace)
       IN IF cross_line /\ col + blanks < Len(t)
          THEN update_pref([c EXCEPT !.column = col + blanks])
          ELSE
            LET at_word == is_word_char(t[col + 1])
                w == IF at_word THEN Run(t, col, is_word_char) ELSE 0
                p == Run(t, col + w, is_punct)
                s == Run(t, col + w + p, is_whitespace)
                \* after a cross-line scan that ran to the end of the line the
                \* iterator is exhausted: everything was consumed
                consumed == IF cross_line THEN Len(t) - col ELSE w + p + s
                new_col == col + consumed
            IN IF new_col >= Len(t)
               THEN IF c.line + 1 < len_lines(r)
                    THEN update_pref(move_word_forward_internal(next_line, r, TRUE))
                    ELSE update_pref([c EXCEPT !.column = SatSub(Len(t), 1)])
               ELSE update_pref([c EXCEPT !.column = new_col])

\* motion.rs move_word_forward
move_word_forward(c, r) == move_word_forward_internal(c, r, FALSE)

\* motion.rs move_word_backward
RECURSIVE move_word_backward(_, _)
move_word_backward(c, r) ==
  IF c.column = 0
  THEN IF c.line > 0
       THEN move_word_backward(
              [c EXCEPT !.line = @ - 1, !.column = Len(line_text(r, c.line - 1))], r)
       ELSE c
  ELSE
    LET t == line_text(r, c.line)
        pre == Slice(t, 0, Min(c.column, Len(t)))
        a == SubSeq(pre, 1, Len(pre) - RunBack(pre, is_whitespace))
        b == SubSeq(a, 1, Len(a) - RunBack(a, is_punct))
        w == SubSeq(b, 1, Len(b) - RunBack(b, is_word_char))
    IN update_pref([c EXCEPT !.column = Len(w)])

\* motion.rs move_word_end
move_word_end(c, r) ==
  LET t == line_text(r, c.line)
      col == c.column
  IN IF col >= Len(t) THEN c
     ELSE
       LET s == Run(t, col, is_whitespace)
           w == Run(t, col + s, is_word_char)
           p == Run(t, col + s + w, is_punct)
           new_col == col + SatSub(s + w + p, 1)
       IN update_pref([c EXCEPT !.column = Min(new_col, SatSub(Len(t), 1))])

\* motion.rs move_document_start
move_document_start(c) == update_pref([c EXCEPT !.line = 0, !.column = 0])

\* motion.rs move_document_end
move_document_end(c, r) ==
  LET l == SatSub(len_lines(r), 1)
  IN update_pref([c EXCEPT !.line = l, !.column = SatSub(Len(line_text(r, l)), 1)])

\* motion.rs page_down
page_down(c, r) ==
  LET l == Min(c.line + half_page, SatSub(len_lines(r), 1))
  IN [c EXCEPT !.line = l, !.column = Min(@, SatSub(Len(line_text(r, l)), 1))]

\* motion.rs page_up
page_up(c) == [c EXCEPT !.line = SatSub(@, half_page)]

\* Motion::execute
Motion_execute(m, c, r) ==
  CASE m = "Left" -> move_left(c, r)
    [] m = "Right" -> move_right(c, r)
    [] m = "Up" -> move_up(c, r)
    [] m = "Down" -> move_down(c, r)
    [] m = "LineStart" -> move_line_start(c)
    [] m = "LineEnd" -> move_line_end(c, r)
    [] m = "FirstNonBlank" -> move_first_non_blank(c, r)
    [] m \in {"WordForward", "WORDForward"} -> move_word_forward(c, r)
    [] m \in {"WordBackward", "WORDBackward"} -> move_word_backward(c, r)
    [] m \in {"WordEnd", "WORDEnd"} -> move_word_end(c, r)
    [] m = "DocumentStart" -> move_document_start(c)
    [] m = "DocumentEnd" -> move_document_end(c, r)
    [] m = "PageDown" -> page_down(c, r)
    [] m = "PageUp" -> page_up(c)

\* ------------------------------------------------------------------- edit
Edits == {"InsertChar", "InsertNewline", "DeleteChar", "DeleteLine", "Backspace",
          "DeleteWord", "ChangeLine", "YankLine", "Paste"}

\* a blank that is not the line break (the scans of Edit::DeleteWord stop at '\n')
is_inline_blank(c) == is_whitespace(c) /\ c # NL

\* Edit::execute does not panic: every offset it hands to the rope is in range
Edit_ok(edit, c, b) ==
  /\ edit \in {"InsertChar", "InsertNewline", "DeleteChar", "DeleteWord"}
       => to_char_idx_ok(c, b.rope)
  /\ edit \in {"InsertChar", "InsertNewline"} => insert_ok(b, to_char_idx(c, b.rope))
  /\ edit = "Backspace" /\ (c.column > 0 \/ c.line > 0) => to_char_idx_ok(c, b.rope)
  /\ edit = "Backspace" /\ c.column = 0 /\ c.line > 0 => line_to_char(b.rope, c.line) >= 1

\* Edit::execute: the cursor, the buffer and the text of the EditResult
\* (None when the edit yields no result)
Edit_execute(edit, ch, c, b) ==
  LET r == b.rope
      idx == to_char_idx(c, r)
      same == [cursor |-> c, buffer |-> b, ret |-> None]
  IN CASE edit = "InsertChar" ->
            LET nb == Buffer_insert(b, idx, << ch >>)
            IN [cursor |-> Cursor_move_right(c, nb.rope, 1), buffer |-> nb, ret |-> None]
       [] edit = "InsertNewline" ->
            [cursor |-> [c EXCEPT !.line = @ + 1, !.column = 0],
             buffer |-> Buffer_insert(b, idx, << NL >>), ret |-> None]
       [] edit = "DeleteChar" ->
            [cursor |-> c, buffer |-> Buffer_remove_char(b, idx),
             ret |-> remove_char_ret(b, idx)]
       [] edit = "DeleteLine" ->
            IF has_line(r, c.line)
            THEN LET nb == Buffer_remove(b, line_to_char(r, c.line), line_len(r, c.line))
                 IN [cursor |-> ensure_valid(c, nb.rope), buffer |-> nb,
                     ret |-> Some(line(r, c.line))]
            ELSE same
       [] edit = "Backspace" ->
            IF c.column > 0
            THEN LET nb == Buffer_remove_char(b, idx - 1)
                 IN [cursor |-> Cursor_move_left(c, nb.rope, 1), buffer |-> nb,
                     ret |-> remove_char_ret(b, idx - 1)]
            ELSE IF c.line > 0
            THEN [cursor |-> [c EXCEPT !.line = @ - 1,
                                       !.column = line_len(r, c.line - 1)],
                  buffer |-> Buffer_remove(b, line_to_char(r, c.line) - 1, 1),
                  ret |-> None]
            ELSE same
       [] edit = "DeleteWord" ->
            IF idx >= Len(r) THEN same
            ELSE LET w == Run(r, idx, is_word_char)
                     p == Run(r, idx + w, is_punct)
                     s == Run(r, idx + w + p, is_inline_blank)
                     consumed == w + p + s
                 IN IF consumed > 0
                    THEN [cursor |-> c, buffer |-> Buffer_remove(b, idx, consumed),
                          ret |-> Some(Slice(r, idx, idx + consumed))]
                    ELSE same
       [] edit = "ChangeLine" ->
            IF has_line(r, c.line)
            THEN [cursor |-> [c EXCEPT !.column = 0],
                  buffer |-> Buffer_remove(b, line_to_char(r, c.line), line_len(r, c.line)),
                  ret |-> Some(line(r, c.line))]
            ELSE same
       [] edit = "YankLine" ->
            IF has_line(r, c.line)
            THEN [cursor |-> c, buffer |-> b, ret |-> Some(line(r, c.line))]
            ELSE same
       [] edit = "Paste" -> same

\* --------------------------------------------------------------- register
\* Register::new / Register::empty
Register_new(content, linewise) == [content |-> content, linewise |-> linewise]
Register_empty == Register_new(<< >>, FALSE)

\* register names: '"', the digits, and the letters of the model
Unnamed == "\""
Digits == <<"0", "1", "2", "3", "4", "5", "6", "7", "8", "9">>
LowerLetters == {"a"}
UpperLetters == {"A"}
to_ascii_lowercase(n) == IF n = "A" THEN "a" ELSE n
\* char::to_digit(10) of a digit name
to_digit(n) == CHOOSE i \in 0..9 : Digits[i + 1] = n
is_digit(n) == \E i \in 1..10 : Digits[i] = n

\* RegisterManager::new (numbered[i + 1] is register i)
RegisterManager_new ==
  [unnamed |-> Register_empty,
   small_delete |-> Register_empty,
   numbered |-> [i \in 1..10 |-> Register_empty],
   named |-> [l \in LowerLetters |-> None],
   search |-> Register_empty]

\* RegisterManager::get
RegisterManager_get(rm, name) ==
  IF name = Unnamed THEN Some(rm.unnamed)
  ELSE IF name = "-" THEN Some(rm.small_delete)
  ELSE IF is_digit(name) THEN Some(rm.numbered[to_digit(name) + 1])
  ELSE IF name \in LowerLetters \cup UpperLetters THEN rm.named[to_ascii_lowercase(name)]
  ELSE IF name = "/" THEN Some(rm.search)
  ELSE None

\* a set that overwrites the slot of an uppercase name
RegisterManager_set_overwriting(rm, name, content, linewise) ==
  IF name \in UpperLetters \cup LowerLetters
  THEN [rm EXCEPT !.named[to_ascii_lowercase(name)] = Some(Register_new(content, linewise))]
  ELSE rm

\* RegisterManager::set
RegisterManager_set(rm, name, content, linewise) ==
  IF name = Unnamed THEN [rm EXCEPT !.unnamed = Register_new(content, linewise)]
  ELSE IF name = "-" THEN [rm EXCEPT !.small_delete = Register_new(content, linewise)]
  ELSE IF is_digit(name)
    THEN [rm EXCEPT !.numbered[to_digit(name) + 1] = Register_new(content, linewise)]
  ELSE IF name \in LowerLetters
    THEN [rm EXCEPT !.named[name] = Some(Register_new(content, linewise))]
  ELSE IF name \in UpperLetters
    THEN LET lower == to_ascii_lowercase(name)
         IN IF IsSome(rm.named[lower])
            THEN [rm EXCEPT !.named[lower] =
                    Some(Register_new(Unwrap(@).content \o content, linewise))]
            ELSE [rm EXCEPT !.named[lower] = Some(Register_new(content, linewise))]
  ELSE IF name = "/" THEN [rm EXCEPT !.search = Register_new(content, linewise)]
  ELSE rm

\* an update that shifts nothing
RegisterManager_set_unnamed_noshift(rm, content, linewise) ==
  [rm EXCEPT !.unnamed = Register_new(content, linewise),
             !.numbered[1] = Register_new(content, linewise)]

\* RegisterManager::set_unnamed: registers 1..8 move to 2..9, the old unnamed
\* register goes to 1, the new content to the unnamed register and to 0
RegisterManager_set_unnamed(rm, content, linewise) ==
  LET new == Register_new(content, linewise)
  IN [rm EXCEPT
        !.numbered = [i \in 1..10 |->
                        IF i = 1 THEN new
                        ELSE IF i = 2 THEN rm.unnamed
                        ELSE rm.numbered[i - 1]],
        !.unnamed = new]

\* RegisterManager::set_unnamed_yank (called by the Editor and the tests; its
\* body is not in register.rs): overwrite the unnamed register and register 0
RegisterManager_set_unnamed_yank(rm, content, linewise) ==
  LET new == Register_new(content, linewise)
  IN [rm EXCEPT !.unnamed = new, !.numbered[1] = new]

\* RegisterManager::set_unnamed_delete (called by the Editor and the tests; its
\* body is not in register.rs): shift 1..8 to 2..9, put the old register 0 into
\* 1, then overwrite the unnamed register and register 0
RegisterManager_set_unnamed_delete(rm, content, linewise) ==
  LET new == Register_new(content, linewise)
  IN [rm EXCEPT
        !.numbered = [i \in 1..10 |-> IF i = 1 THEN new ELSE rm.numbered[i - 1]],
        !.unnamed = new]

\* ------------------------------------------------------------ text object
TextObjects == {"AroundWord", "InnerWord", "AroundSentence", "InnerSentence",
                "AroundParagraph", "InnerParagraph"}

\* TextObject::find_word_boundaries: chars[..=start_col] panics on an empty line
find_word_boundaries_ok(chars) == Len(chars) > 0
find_word_boundaries(chars, col0) ==
  LET col == Min(col0, SatSub(Len(chars), 1))
      skip == Run(chars, col, LAMBDA ch : ~is_word_char(ch))
      found == col + skip < Len(chars)
      start_col == col + skip
  IN IF ~found THEN None
     ELSE LET word_start ==
                start_col + 1 - RunBack(Slice(chars, 0, start_col + 1), is_word_char)
              word_end == start_col + Run(chars, start_col, is_word_char)
          IN Some(<< word_start, word_end >>)

\* char::len_utf8 and str::len: texts are indexed by byte where the code
\* indexes a str, by character where it indexes a Vec<char>
len_utf8(c) == IF c = "é" THEN 2 ELSE 1
RECURSIVE str_len(_)
str_len(t) == IF t = << >> THEN 0 ELSE len_utf8(Head(t)) + str_len(Tail(t))
\* str::is_char_boundary
is_char_boundary(t, k) == \E i \in 0..Len(t) : str_len(Slice(t, 0, i)) = k
\* text[k..].starts_with(ch), for k on a character boundary
starts_with_at(t, k, ch) ==
  \E i \in 0..(Len(t) - 1) : str_len(Slice(t, 0, i)) = k /\ t[i + 1] = ch

\* TextObject::get_inner_word_range
get_inner_word_range(c, r) ==
  IF ~has_line(r, c.line) THEN None
  ELSE LET t == line(r, c.line)
           w == find_word_boundaries(t, Min(c.column, SatSub(str_len(t), 1)))
           line_start == line_to_char(r, c.line)
       IN IF w = None THEN None
          ELSE Some(<< line_start + Unwrap(w)[1], line_start + Unwrap(w)[2] >>)

\* TextObject::get_around_word_range: line_text[word_end..] panics when
\* word_end, a character index, is not on a character boundary of the str
get_around_word_range_ok(c, r) ==
  has_line(r, c.line) /\ find_word_boundaries_ok(line(r, c.line)) =>
    LET t == line(r, c.line)
        w == find_word_boundaries(t, Min(c.column, SatSub(str_len(t), 1)))
    IN w # None /\ Unwrap(w)[2] < str_len(t) => is_char_boundary(t, Unwrap(w)[2])
get_around_word_range(c, r) ==
  IF ~has_line(r, c.line) THEN None
  ELSE LET t == line(r, c.line)
           w == find_word_boundaries(t, Min(c.column, SatSub(str_len(t), 1)))
           line_start == line_to_char(r, c.line)
       IN IF w = None THEN None
          ELSE LET word_end == Unwrap(w)[2]
                   has_trailing_space ==
                     word_end < str_len(t) /\ starts_with_at(t, word_end, " ")
               IN Some(<< line_start + Unwrap(w)[1],
                          line_start + (IF has_trailing_space THEN word_end + 1
                                        ELSE word_end) >>)

\* TextObject::get_range
get_range_ok(obj, c, r) ==
  /\ obj \in {"AroundWord", "InnerWord"} /\ has_line(r, c.line)
       => find_word_boundaries_ok(line(r, c.line))
  /\ obj = "AroundWord" => get_around_word_range_ok(c, r)
get_range(obj, c, r) ==
  CASE obj = "AroundWord" -> get_around_word_range(c, r)
    [] obj = "InnerWord" -> get_inner_word_range(c, r)
    [] OTHER -> None

\* ---------------------------------------------------------------- replace
\* the pieces of a text between its line breaks
RECURSIVE split_nl(_)
split_nl(t) ==
  LET n == Run(t, 0, LAMBDA ch : ch # NL)
  IN IF n = Len(t) THEN << t >>
     ELSE << Slice(t, 0, n) >> \o split_nl(From(t, n + 1))

\* str::lines: a final empty piece is no line
str_lines(t) ==
  LET p == split_nl(t)
  IN IF p[Len(p)] = << >> THEN SubSeq(p, 1, Len(p) - 1) ELSE p

\* [String]::join("\n")
RECURSIVE join_nl(_)
join_nl(ls) ==
  IF Len(ls) = 0 THEN << >>
  ELSE IF Len(ls) = 1 THEN ls[1]
  ELSE ls[1] \o << NL >> \o join_nl(Tail(ls))

\* str::find of a non-empty pattern
str_find(t, pat) ==
  LET hits == {i \in 0..(Len(t) - Len(pat)) : Slice(t, i, i + Len(pat)) = pat}
  IN IF hits = {} THEN None ELSE Some(CHOOSE i \in hits : \A j \in hits : i <= j)

\* str::matches(pat).count() and str::replace(pat, rep): left to right,
\* matches do not overlap
RECURSIVE str_count(_, _)
str_count(t, pat) ==
  LET f == str_find(t, pat)
  IN IF f = None THEN 0 ELSE 1 + str_count(From(t, Unwrap(f) + Len(pat)), pat)

RECURSIVE str_replace(_, _, _)
str_replace(t, pat, rep) ==
  LET f == str_find(t, pat)
  IN IF f = None THEN t
     ELSE Slice(t, 0, Unwrap(f)) \o rep \o str_replace(From(t, Unwrap(f) + Len(pat)), pat, rep)

str_replace_first_and_rest(t, pat, rep) == str_replace(t, pat, rep)

\* the first occurrence only
str_replace_first(t, pat, rep) ==
  LET f == str_find(t, pat)
  IN IF f = None THEN t
     ELSE Slice(t, 0, Unwrap(f)) \o rep \o From(t, Unwrap(f) + Len(pat))

\* replace_in_buffer: the new buffer and the count; line_range is None (every
\* line) or Some(<<start, end>>)
replace_in_buffer(b, pattern, replacement, global, line_range) ==
  IF pattern = << >> THEN [buffer |-> b, count |-> 0]
  ELSE
    LET lines == str_lines(b.rope)
        start_line == IF line_range = None THEN 0 ELSE Unwrap(line_range)[1]
        end_line == IF line_range = None THEN Len(lines) ELSE Unwrap(line_range)[2]
        targeted(i) == i - 1 >= start_line /\ i - 1 < end_line
        new_lines == [i \in 1..Len(lines) |->
                        IF ~targeted(i) THEN lines[i]
                        ELSE IF global THEN str_replace(lines[i], pattern, replacement)
                        ELSE str_replace_first(lines[i], pattern, replacement)]
        counts == [i \in 1..Len(lines) |->
                     IF ~targeted(i) THEN 0
                     ELSE IF global THEN str_count(lines[i], pattern)
                     ELSE IF str_find(lines[i], pattern) = None THEN 0 ELSE 1]
        sum[i \in 0..Len(lines)] == IF i = 0 THEN 0 ELSE sum[i - 1] + counts[i]
        new_text == join_nl(new_lines) \o << NL >>
    IN [buffer |-> Buffer_insert(Buffer_new(b.id), 0, new_text), count |-> sum[Len(lines)]]

\* str::starts_with, str::ends_with, str::strip_prefix
starts_with(t, p) == Len(p) <= Len(t) /\ Slice(t, 0, Len(p)) = p
ends_with(t, p) == Len(p) <= Len(t) /\ From(t, Len(t) - Len(p)) = p
strip_prefix(t, p) == IF starts_with(t, p) THEN Some(From(t, Len(p))) ELSE None

\* str::splitn(2, sep).collect(): the text before the first sep and the text
\* after it, or the whole text
splitn2(t, sep) ==
  IF IsSome(str_find(t, << sep >>))
  THEN << Slice(t, 0, Unwrap(str_find(t, << sep >>))),
          From(t, Unwrap(str_find(t, << sep >>)) + 1) >>
  ELSE << t >>

\* parse_substitute_command from `let parts` on: content is the text between
\* the s/ and the /g
parsed_parts(parts, global, full_file) ==
  IF Len(parts) # 2 THEN None
  ELSE Some(<< parts[1], parts[2], global, full_file >>)

\* parse_substitute_command from `let global` on: content is the text after
\* the s/
parsed_content(content, full_file) ==
  parsed_parts(splitn2(IF ends_with(content, << "/", "g" >>)
                       THEN Slice(content, 0, Len(content) - 2) ELSE content, "/"),
               ends_with(content, << "/", "g" >>), full_file)

\* parse_substitute_command after the ':' is stripped
parsed_command(content) ==
  IF starts_with(content, << "%", "s", "/" >>)
  THEN parsed_content(Unwrap(strip_prefix(content, << "%", "s", "/" >>)), TRUE)
  ELSE IF IsSome(strip_prefix(content, << "s", "/" >>))
  THEN parsed_content(Unwrap(strip_prefix(content, << "s", "/" >>)), FALSE)
  ELSE None

parse_substitute_command(command) ==
  parsed_command(IF IsSome(strip_prefix(command, << ":" >>))
                 THEN Unwrap(strip_prefix(command, << ":" >>)) ELSE command)

\* ----------------------------------------------------------------- editor
\* Mode (the modes the model enters) and Mode::is_insert
Modes == {"Normal", "Insert", "Replace"}
is_insert(m) == m \in {"Insert", "Replace"}

\* Option<char> register arguments
Registers == {None, Some("a")}

\* EditorOptions::default
EditorOptions_default == [number |-> FALSE, relativenumber |-> FALSE, cursorline |-> FALSE]

\* ---- search (search.rs) ----
\* str::find returns byte offsets into the String of the buffer; the
\* patterns begin with a one-byte character, so that text[start..] is always
\* cut on a character boundary.

SearchState_new ==
  [pattern |-> << >>, direction |-> "Forward", matches |-> << >>,
   current_match |-> None]

\* the pattern occurs in the text at offset i
occurs_at(text, pattern, i) ==
  /\ i + Len(pattern) <= Len(text)
  /\ \A k \in 1..Len(pattern) : text[i + k] = pattern[k]

\* text[start..].find(pattern), as an offset into the text
RECURSIVE find_from(_, _, _)
find_from(text, pattern, start) ==
  IF start + Len(pattern) > Len(text) THEN None
  ELSE IF occurs_at(text, pattern, start) THEN Some(start)
  ELSE find_from(text, pattern, start + 1)

\* the while let loop of find_all_matches
RECURSIVE scan_matches(_, _, _, _)
scan_matches(text, pattern, start, matches) ==
  IF IsSome(find_from(text, pattern, start))
  THEN scan_matches(text, pattern, Unwrap(find_from(text, pattern, start)) + 1,
                    Append(matches, Unwrap(find_from(text, pattern, start))))
  ELSE matches

\* the byte offsets of the characters at the offsets ms of the text
byte_offsets(text, ms) == [k \in 1..Len(ms) |-> str_len(Slice(text, 0, ms[k]))]

find_all_matches(s, buffer) ==
  [s EXCEPT !.matches = IF s.pattern = << >> THEN << >>
                        ELSE byte_offsets(buffer.rope,
                                          scan_matches(buffer.rope, s.pattern, 0, << >>)),
            !.current_match = None]

set_pattern(s, pattern, direction, buffer) ==
  find_all_matches([s EXCEPT !.pattern = pattern, !.direction = direction], buffer)

\* matches.iter().position(|&m| m > idx), scanning from the i-th match
RECURSIVE position_after(_, _, _)
position_after(matches, idx, i) ==
  IF i > Len(matches) THEN None
  ELSE IF matches[i] > idx THEN Some(i - 1)
  ELSE position_after(matches, idx, i + 1)

\* matches.iter().rposition(|&m| m < idx), scanning down from the i-th match
RECURSIVE rposition_before(_, _, _)
rposition_before(matches, idx, i) ==
  IF i = 0 THEN None
  ELSE IF matches[i] < idx THEN Some(i - 1)
  ELSE rposition_before(matches, idx, i - 1)

or_else(v, w) == IF IsSome(v) THEN v ELSE w

calc_match_ok(s, cursor, buffer) ==
  s.matches = << >> \/ to_char_idx_ok(cursor, buffer.rope)

calc_next_match_wrapping_alone(s, cursor, buffer) ==
  IF s.matches = << >> THEN None
  ELSE IF s.direction = "Forward"
  THEN or_else(position_after(s.matches, to_char_idx(cursor, buffer.rope), 1), Some(0))
  ELSE or_else(rposition_before(s.matches, to_char_idx(cursor, buffer.rope), Len(s.matches)),
               Some(Len(s.matches) - 1))

calc_next_match(s, cursor, buffer) ==
  IF s.matches = << >> THEN None
  ELSE IF s.direction = "Forward"
  THEN or_else(position_after(s.matches, to_char_idx(cursor, buffer.rope), 1),
               IF Len(s.matches) > 1 THEN Some(0) ELSE None)
  ELSE or_else(rposition_before(s.matches, to_char_idx(cursor, buffer.rope), Len(s.matches)),
               IF Len(s.matches) > 1 THEN Some(Len(s.matches) - 1) ELSE None)

calc_prev_match_undirected(s, cursor, buffer) ==
  IF s.matches = << >> THEN None
  ELSE or_else(rposition_before(s.matches, to_char_idx(cursor, buffer.rope), Len(s.matches)),
               IF Len(s.matches) > 1 THEN Some(Len(s.matches) - 1) ELSE None)

calc_prev_match(s, cursor, buffer) ==
  IF s.matches = << >> THEN None
  ELSE IF s.direction = "Forward"
  THEN or_else(rposition_before(s.matches, to_char_idx(cursor, buffer.rope), Len(s.matches)),
               IF Len(s.matches) > 1 THEN Some(Len(s.matches) - 1) ELSE None)
  ELSE or_else(position_after(s.matches, to_char_idx(cursor, buffer.rope), 1),
               IF Len(s.matches) > 1 THEN Some(0) ELSE None)

\* matches.iter().position(|&m| m >= idx), scanning from the i-th match
RECURSIVE position_from(_, _, _)
position_from(matches, idx, i) ==
  IF i > Len(matches) THEN None
  ELSE IF matches[i] >= idx THEN Some(i - 1)
  ELSE position_from(matches, idx, i + 1)

\* matches.iter().rposition(|&m| m <= idx), scanning down from the i-th match
RECURSIVE rposition_upto(_, _, _)
rposition_upto(matches, idx, i) ==
  IF i = 0 THEN None
  ELSE IF matches[i] <= idx THEN Some(i - 1)
  ELSE rposition_upto(matches, idx, i - 1)

\* SearchState::calc_first_match: Editor::start_search and the unit tests
\* call it; in a Forward search the first match at or after the cursor, in a
\* Backward search the last match at or before it, wrapping as
\* calc_next_match does
calc_first_match(s, cursor, buffer) ==
  IF s.matches = << >> THEN None
  ELSE IF s.direction = "Forward"
  THEN or_else(position_from(s.matches, to_char_idx(cursor, buffer.rope), 1),
               IF Len(s.matches) > 1 THEN Some(0) ELSE None)
  ELSE or_else(rposition_upto(s.matches, to_char_idx(cursor, buffer.rope), Len(s.matches)),
               IF Len(s.matches) > 1 THEN Some(Len(s.matches) - 1) ELSE None)

get_match_pos(s, idx) == IF idx < Len(s.matches) THEN Some(s.matches[idx + 1]) ELSE None

set_current_match(s, idx) == [s EXCEPT !.current_match = Some(idx)]

SearchState_clear(s) ==
  [s EXCEPT !.pattern = << >>, !.matches = << >>, !.current_match = None]


\* Editor::new; crashed records a panic, ret the value the last call returned
Editor_new ==
  [buffers |-> (0 :> Buffer_new(0)),
   current_buffer |-> 0,
   cursor |-> at_origin,
   buffer_cursors |-> (0 :> at_origin),
   mode |-> "Normal",
   next_buffer_id |-> 1,
   message |-> None,
   options |-> EditorOptions_default,
   show_buffer_list |-> FALSE,
   show_registers_panel |-> FALSE,
   command_line |-> << >>,
   register_manager |-> RegisterManager_new,
   search_state |-> SearchState_new,
   undo_stack |-> << >>,
   redo_stack |-> << >>,
   crashed |-> FALSE,
   ret |-> None]

\* Editor::current_buffer / current_buffer_mut
current_buffer(e) == e.buffers[e.current_buffer]
with_buffer(e, b) == [e EXCEPT !.buffers[e.current_buffer] = b]

\* Editor::set_message
set_message(e, message) == [e EXCEPT !.message = Some(message)]

\* a call returns v; a call panics
Returns(e, v) == [e EXCEPT !.ret = v]
Panics(e) == [e EXCEPT !.crashed = TRUE, !.ret = None]

\* EditState of the current state
EditState(e) ==
  [buffer_content |-> current_buffer(e).rope,
   cursor |-> e.cursor,
   file_path |-> current_buffer(e).file_path]

\* Editor::save_state (the first half of with_save_state!)
save_state(e) ==
  [e EXCEPT !.undo_stack = Append(@, EditState(e)), !.redo_stack = << >>]

\* a rebuild that forgets the file path
restored_buffer_pathless(id, state) == Buffer_insert(Buffer_new(id), 0, state.buffer_content)

\* a rebuild that does not mark the buffer modified
restored_buffer_clean(id, state) ==
  [Buffer_new(id) EXCEPT !.rope = state.buffer_content, !.file_path = state.file_path]

\* the buffer undo and redo rebuild from a snapshot
restored_buffer(id, state) ==
  LET nb == Buffer_insert(Buffer_new(id), 0, state.buffer_content)
  IN IF IsSome(state.file_path) THEN [nb EXCEPT !.file_path = state.file_path] ELSE nb

\* Editor::undo
undo(e) ==
  IF Len(e.undo_stack) = 0 THEN Returns(e, None)
  ELSE LET state == e.undo_stack[Len(e.undo_stack)]
       IN [with_buffer(e, restored_buffer(e.current_buffer, state)) EXCEPT
             !.undo_stack = SubSeq(@, 1, Len(@) - 1),
             !.redo_stack = Append(@, EditState(e)),
             !.cursor = state.cursor,
             !.ret = None]

\* Editor::redo
redo(e) ==
  IF Len(e.redo_stack) = 0 THEN Returns(e, None)
  ELSE LET state == e.redo_stack[Len(e.redo_stack)]
       IN [with_buffer(e, restored_buffer(e.current_buffer, state)) EXCEPT
             !.redo_stack = SubSeq(@, 1, Len(@) - 1),
             !.undo_stack = Append(@, EditState(e)),
             !.cursor = state.cursor,
             !.ret = None]

\* Editor::set_mode
set_mode(e, m) ==
  LET e1 == IF e.mode = "Normal" /\ m = "Insert" THEN save_state(e) ELSE e
  IN [e1 EXCEPT !.mode = m, !.ret = None]

\* Editor::execute_motion
execute_motion(e, motion) ==
  [e EXCEPT !.cursor = Motion_execute(motion, e.cursor, current_buffer(e).rope),
            !.ret = None]

\* Editor::execute_edit: the outcome r of Edit::execute is put into the Editor
edited(e, r) == [with_buffer(e, r.buffer) EXCEPT !.cursor = r.cursor, !.ret = r.ret]
execute_edit(e0, edit, ch) ==
  LET e == save_state(e0)
  IN IF ~Edit_ok(edit, e.cursor, current_buffer(e)) THEN Panics(e)
     ELSE edited(e, Edit_execute(edit, ch, e0.cursor, current_buffer(e0)))

\* Editor::insert_char
insert_char(e, ch) ==
  IF ~is_insert(e.mode) THEN Returns(e, None)
  ELSE LET b == current_buffer(e)
           l == e.cursor.line
           col == e.cursor.column
       IN IF ~line_to_char_ok(b.rope, l) THEN Panics(e)
          ELSE LET char_idx == line_to_char(b.rope, l) + Min(col, line_len(b.rope, l))
               IN IF ~insert_ok(b, char_idx) THEN Panics(e)
                  ELSE LET nb == Buffer_insert(b, char_idx, << ch >>)
                           ncol == Min(col + 1, line_len(nb.rope, l))
                       IN [with_buffer(e, nb) EXCEPT
                             !.cursor.column = ncol,
                             !.cursor.preferred_column = Some(ncol),
                             !.ret = None]

\* Editor::insert_newline
insert_newline(e) ==
  IF ~is_insert(e.mode) THEN Returns(e, None)
  ELSE LET b == current_buffer(e)
       IN IF ~to_char_idx_ok(e.cursor, b.rope) THEN Panics(e)
          ELSE IF ~insert_ok(b, to_char_idx(e.cursor, b.rope)) THEN Panics(e)
          ELSE [with_buffer(e, Buffer_insert(b, to_char_idx(e.cursor, b.rope), << NL >>))
                  EXCEPT !.cursor.line = @ + 1, !.cursor.column = 0, !.ret = None]

\* Editor::backspace
backspace(e0) ==
  IF ~is_insert(e0.mode) \/ ~(e0.cursor.column > 0 \/ e0.cursor.line > 0)
  THEN Returns(e0, None)
  ELSE
    LET e == save_state(e0)
        b == current_buffer(e)
        c == e.cursor
    IN IF ~to_char_idx_ok(c, b.rope) THEN Panics(e)
       ELSE IF c.column > 0
       THEN [with_buffer(e, Buffer_remove_char(b, to_char_idx(c, b.rope) - 1)) EXCEPT
               !.cursor.column = c.column - 1,
               !.cursor.preferred_column = Some(c.column - 1),
               !.ret = None]
       ELSE LET prev_line_len == line_len(b.rope, c.line - 1)
                current_line_start == line_to_char(b.rope, c.line)
            IN IF current_line_start = 0 THEN Panics(e)
               ELSE [with_buffer(e, Buffer_remove(b, current_line_start - 1, 1)) EXCEPT
                       !.cursor.line = c.line - 1,
                       !.cursor.column = prev_line_len,
                       !.ret = None]

\* the cursor clamp that delete_char and delete_char_to_register do by hand
clamped(c, r) ==
  LET new_line == Min(c.line, SatSub(len_lines(r), 1))
  IN [c EXCEPT !.line = new_line,
               !.column = Min(c.column, SatSub(line_len(r, new_line), 1))]

\* Editor::delete_char
delete_char(e0) ==
  IF e0.mode # "Normal" THEN Returns(e0, None)
  ELSE LET e == save_state(e0)
           b == current_buffer(e)
       IN IF ~to_char_idx_ok(e.cursor, b.rope) THEN Panics(e)
          ELSE LET nb == Buffer_remove_char(b, to_char_idx(e.cursor, b.rope))
               IN [with_buffer(e, nb) EXCEPT !.cursor = clamped(e.cursor, nb.rope),
                                             !.ret = None]

\* Editor::get_line_text followed by format!("{}\n", ..)
line_content(e, l) == line_text(current_buffer(e).rope, l) \o << NL >>

\* register.unwrap_or('"')
unwrap_or_unnamed(register) == IF IsSome(register) THEN Unwrap(register) ELSE Unnamed

\* Editor::yank_line
yank_line(e, register) ==
  LET l == e.cursor.line
  IN IF ~has_line(current_buffer(e).rope, l) THEN Returns(e, None)
     ELSE [e EXCEPT
             !.register_manager =
               RegisterManager_set(@, unwrap_or_unnamed(register), line_content(e, l), TRUE),
             !.ret = None]

\* Editor::paste
paste(e0, register, before_cursor) ==
  LET got == RegisterManager_get(e0.register_manager, unwrap_or_unnamed(register))
  IN IF got = None THEN Returns(e0, None)
     ELSE IF Unwrap(got).content = << >> THEN Returns(e0, None)
     ELSE
       LET content == Unwrap(got).content
           e == save_state(e0)
           b == current_buffer(e)
           c == e.cursor
       IN IF Unwrap(got).linewise
          THEN LET insert_line == IF before_cursor THEN c.line ELSE c.line + 1
               IN IF ~line_to_char_ok(b.rope, insert_line) THEN Panics(e)
                  ELSE [with_buffer(e, Buffer_insert(b, line_to_char(b.rope, insert_line),
                                                     content))
                          EXCEPT !.cursor.line = insert_line, !.cursor.column = 0,
                                 !.ret = None]
          ELSE IF ~line_to_char_ok(b.rope, c.line) THEN Panics(e)
          ELSE LET line_start == line_to_char(b.rope, c.line)
                   text_len == SatSub(line_len(b.rope, c.line), 1)
                   insert_idx == IF before_cursor THEN line_start + Min(c.column, text_len)
                                 ELSE IF c.column >= text_len THEN line_start + text_len
                                 ELSE line_start + c.column + 1
               IN IF ~insert_ok(b, insert_idx) THEN Panics(e)
                  ELSE LET nb == Buffer_insert(b, insert_idx, content)
                       IN [with_buffer(e, nb) EXCEPT
                             !.cursor.column =
                               Min(c.column + Len(content),
                                   SatSub(line_len(nb.rope, c.line), 1)),
                             !.ret = None]

\* Editor::delete_line
delete_line(e0, register) ==
  LET line_idx == e0.cursor.line
  IN IF ~has_line(current_buffer(e0).rope, line_idx) THEN Returns(e0, None)
     ELSE
       LET content == line_content(e0, line_idx)
           e == save_state(e0)
           b == current_buffer(e)
           nb == Buffer_remove(b, line_to_char(b.rope, line_idx), line_len(b.rope, line_idx))
       IN [with_buffer(e, nb) EXCEPT
             !.register_manager =
               RegisterManager_set(@, unwrap_or_unnamed(register), content, TRUE),
             !.cursor.line = Min(@, SatSub(len_lines(nb.rope), 1)),
             !.cursor.column = 0,
             !.ret = Some(content)]

\* Editor::delete_char_to_register
delete_char_to_register(e0, register) ==
  LET e == save_state(e0)
      b == current_buffer(e)
  IN IF ~to_char_idx_ok(e.cursor, b.rope) THEN Panics(e)
     ELSE LET char_idx == to_char_idx(e.cursor, b.rope)
              ch == remove_char_ret(b, char_idx)
              nb == Buffer_remove_char(b, char_idx)
          IN IF ch = None THEN Returns(e, None)
             ELSE [with_buffer(e, nb) EXCEPT
                     !.cursor = clamped(e.cursor, nb.rope),
                     !.register_manager =
                       RegisterManager_set(@, unwrap_or_unnamed(register),
                                           << Unwrap(ch) >>, FALSE),
                     !.ret = ch]

\* offset of the first line break of t, None when it has none (str::find('\n'))
find_nl(t) ==
  LET n == Run(t, 0, LAMBDA ch : ch # NL)
  IN IF n < Len(t) THEN Some(n) ELSE None

\* the offsets an operator + motion starts from: <<start_idx, end_idx>>, the
\* cursor's and the moved cursor's
motion_span(e, motion) ==
  << to_char_idx(e.cursor, current_buffer(e).rope),
     to_char_idx(Motion_execute(motion, e.cursor, current_buffer(e).rope),
                 current_buffer(e).rope) >>

\* delete_to_motion_with_register: a word motion's span is cut at its first
\* line break
truncated_end(text, start_idx, end_idx, motion) ==
  IF motion \in {"WordForward", "WordBackward"}
  THEN LET start == Min(start_idx, end_idx)
           newline_pos == find_nl(Slice(text, start, Max(start_idx, end_idx)))
       IN IF IsSome(newline_pos) THEN start + Unwrap(newline_pos) ELSE end_idx
  ELSE end_idx

\* a placement that leaves the cursor where it was
cursor_after_delete_stays(is_forward, start_cursor, r, start) == start_cursor

\* delete_to_motion_with_register: where the cursor is put
cursor_after_delete(is_forward, start_cursor, r, start) ==
  IF is_forward THEN start_cursor ELSE from_char_idx(r, start)

\* delete_to_motion_with_register from the second start == end test on
delete_span(e, start_idx, end_idx, register) ==
  LET b == current_buffer(e)
      start == Min(start_idx, end_idx)
      end == Max(start_idx, end_idx)
  IN IF start_idx = end_idx THEN Returns(e, None)
     ELSE IF end > Len(b.rope) THEN Panics(e)
     ELSE [with_buffer(e, Buffer_remove(b, start, end - start)) EXCEPT
             !.register_manager =
               RegisterManager_set_unnamed_delete(
                 IF IsSome(register)
                 THEN RegisterManager_set(@, Unwrap(register), Slice(b.rope, start, end), FALSE)
                 ELSE @,
                 Slice(b.rope, start, end), FALSE),
             !.cursor = cursor_after_delete(start_idx < end_idx, e.cursor,
                                            Buffer_remove(b, start, end - start).rope, start),
             !.ret = Some(Slice(b.rope, start, end))]

\* delete_to_motion_with_register once the motion has moved the copy of the
\* cursor to temp_cursor
delete_toward(e, temp_cursor, motion, register) ==
  LET text == current_buffer(e).rope
  IN IF ~to_char_idx_ok(e.cursor, text) \/ ~to_char_idx_ok(temp_cursor, text) THEN Panics(e)
     ELSE IF to_char_idx(e.cursor, text) = to_char_idx(temp_cursor, text)
       THEN Returns(e, None)
     ELSE IF /\ motion \in {"WordForward", "WordBackward"}
             /\ Max(to_char_idx(e.cursor, text), to_char_idx(temp_cursor, text)) > Len(text)
       THEN Panics(e)
     ELSE delete_span(e, to_char_idx(e.cursor, text),
                      truncated_end(text, to_char_idx(e.cursor, text),
                                    to_char_idx(temp_cursor, text), motion),
                      register)

\* Editor::delete_to_motion_with_register
delete_to_motion_with_register(e0, motion, register) ==
  delete_toward(save_state(e0),
                Motion_execute(motion, e0.cursor, current_buffer(e0).rope),
                motion, register)

\* yank_to_motion_with_register once the offsets are known
yank_span(e, start_idx, end_idx, register) ==
  LET text == current_buffer(e).rope
      start == Min(start_idx, end_idx)
      end == Max(start_idx, end_idx)
  IN IF start_idx = end_idx THEN Returns(e, None)
     ELSE IF end > Len(text) THEN Panics(e)
     ELSE [e EXCEPT
             !.register_manager =
               RegisterManager_set_unnamed_yank(
                 IF IsSome(register)
                 THEN RegisterManager_set(@, Unwrap(register), Slice(text, start, end), FALSE)
                 ELSE @,
                 Slice(text, start, end), FALSE),
             !.ret = None]

\* yank_to_motion_with_register once the motion has moved the copy of the
\* cursor to temp_cursor
yank_toward(e, temp_cursor, register) ==
  LET text == current_buffer(e).rope
  IN IF ~to_char_idx_ok(e.cursor, text) \/ ~to_char_idx_ok(temp_cursor, text) THEN Panics(e)
     ELSE yank_span(e, to_char_idx(e.cursor, text), to_char_idx(temp_cursor, text), register)

\* Editor::yank_to_motion_with_register
yank_to_motion_with_register(e, motion, register) ==
  yank_toward(e, Motion_execute(motion, e.cursor, current_buffer(e).rope), register)

\* delete_text_object once the range rng is known
delete_range(e, rng) ==
  LET b == current_buffer(e)
  IN IF rng = None THEN Returns(e, None)
     ELSE [with_buffer(e, Buffer_remove(b, Unwrap(rng)[1], Unwrap(rng)[2] - Unwrap(rng)[1]))
             EXCEPT
             !.register_manager =
               RegisterManager_set_unnamed_delete(
                 @, Slice(b.rope, Unwrap(rng)[1], Unwrap(rng)[2]), FALSE),
             !.cursor =
               from_char_idx(
                 Buffer_remove(b, Unwrap(rng)[1], Unwrap(rng)[2] - Unwrap(rng)[1]).rope,
                 Unwrap(rng)[1]),
             !.ret = Some(Slice(b.rope, Unwrap(rng)[1], Unwrap(rng)[2]))]

\* Editor::delete_text_object
delete_text_object(e0, obj) ==
  IF ~get_range_ok(obj, e0.cursor, current_buffer(e0).rope) THEN Panics(save_state(e0))
  ELSE delete_range(save_state(e0), get_range(obj, e0.cursor, current_buffer(e0).rope))

\* yank_text_object once the range rng is known
yank_range(e, rng) ==
  IF rng = None THEN Returns(e, None)
  ELSE [e EXCEPT
          !.register_manager =
            RegisterManager_set_unnamed_yank(
              @, Slice(current_buffer(e).rope, Unwrap(rng)[1], Unwrap(rng)[2]), FALSE),
          !.ret = Some(Slice(current_buffer(e).rope, Unwrap(rng)[1], Unwrap(rng)[2]))]

\* Editor::yank_text_object
yank_text_object(e, obj) ==
  IF ~get_range_ok(obj, e.cursor, current_buffer(e).rope) THEN Panics(e)
  ELSE yank_range(e, get_range(obj, e.cursor, current_buffer(e).rope))

\* Editor::execute_command, the substitute branch (s/pattern/replacement/[g],
\* with % for the whole file), the command already parsed
substitute(e0, pattern, replacement, global, full_file) ==
  LET e == save_state(e0)
      line_range == IF full_file THEN None
                    ELSE Some(<< e.cursor.line, e.cursor.line + 1 >>)
      result == replace_in_buffer(current_buffer(e), pattern, replacement, global, line_range)
  IN [with_buffer(e, result.buffer) EXCEPT
        !.message = Some(<< "Replaced", ToString(result.count) >>),
        !.ret = None]

\* ------------------------------------------------------ buffers, commands
\* Result<(), String>: Ok(()) and Err(message)
Ok == << "Ok" >>
Err(message) == << "Err", message >>
is_ok(v) == Len(v) = 1 /\ v[1] = "Ok"
is_err(v) == Len(v) = 2 /\ v[1] = "Err"

\* HashMap::insert, HashMap::remove
put(f, k, v) == (k :> v) @@ f
without(f, k) == [x \in DOMAIN f \ {k} |-> f[x]]

\* buffer_cursors.get(&id).cloned().unwrap_or_else(Cursor::at_origin)
remembered_cursor(e, id) ==
  IF id \in DOMAIN e.buffer_cursors THEN e.buffer_cursors[id] ELSE at_origin

switch_buffer_forgetting(e, buffer_id) ==
  IF buffer_id \notin DOMAIN e.buffers
  THEN Returns(e, Err(<< "no buffer", ToString(buffer_id) >>))
  ELSE [e EXCEPT !.current_buffer = buffer_id,
                 !.cursor = remembered_cursor(e, buffer_id),
                 !.ret = Ok]

\* Editor::switch_buffer
switch_buffer(e, buffer_id) ==
  IF buffer_id \notin DOMAIN e.buffers
  THEN Returns(e, Err(<< "no buffer", ToString(buffer_id) >>))
  ELSE [e EXCEPT
          !.buffer_cursors = put(@, e.current_buffer, e.cursor),
          !.current_buffer = buffer_id,
          !.cursor = remembered_cursor(
                       [e EXCEPT !.buffer_cursors = put(@, e.current_buffer, e.cursor)],
                       buffer_id),
          !.ret = Ok]

\* buffer_ids.sort_by_key(|id| id.as_usize())
RECURSIVE sorted(_)
sorted(ids) ==
  IF ids = {} THEN << >>
  ELSE LET least == CHOOSE x \in ids : \A y \in ids : x <= y
       IN << least >> \o sorted(ids \ {least})

\* buffer_ids.iter().position(|&id| id == current).unwrap_or(0)
position_or_zero(ids, id) ==
  IF \E i \in 1..Len(ids) : ids[i] = id
  THEN (CHOOSE i \in 1..Len(ids) : ids[i] = id) - 1
  ELSE 0

\* Editor::next_buffer
next_buffer_of(ids, current_idx) == ids[((current_idx + 1) % Len(ids)) + 1]
next_buffer(e) ==
  IF Cardinality(DOMAIN e.buffers) <= 1 THEN Returns(e, Err(<< "no other buffer" >>))
  ELSE switch_buffer(e, next_buffer_of(sorted(DOMAIN e.buffers),
                                       position_or_zero(sorted(DOMAIN e.buffers),
                                                        e.current_buffer)))

\* Editor::prev_buffer
prev_buffer_of(ids, current_idx) ==
  ids[(IF current_idx = 0 THEN Len(ids) - 1 ELSE current_idx - 1) + 1]
prev_buffer(e) ==
  IF Cardinality(DOMAIN e.buffers) <= 1 THEN Returns(e, Err(<< "no other buffer" >>))
  ELSE switch_buffer(e, prev_buffer_of(sorted(DOMAIN e.buffers),
                                       position_or_zero(sorted(DOMAIN e.buffers),
                                                        e.current_buffer)))

\* a create_new_buffer that takes the id after the largest open one
create_new_buffer_reusing(e) ==
  LET id == (CHOOSE x \in DOMAIN e.buffers : \A y \in DOMAIN e.buffers : y <= x) + 1
  IN [e EXCEPT
        !.buffer_cursors = put(put(@, e.current_buffer, e.cursor), id, at_origin),
        !.buffers = put(@, id, Buffer_new(id)),
        !.current_buffer = id,
        !.cursor = at_origin,
        !.mode = "Normal",
        !.ret = None]

\* Editor::create_new_buffer
create_new_buffer(e) ==
  [e EXCEPT
     !.buffer_cursors = put(put(@, e.current_buffer, e.cursor), e.next_buffer_id, at_origin),
     !.next_buffer_id = @ + 1,
     !.buffers = put(@, e.next_buffer_id, Buffer_new(e.next_buffer_id)),
     !.current_buffer = e.next_buffer_id,
     !.cursor = at_origin,
     !.mode = "Normal",
     !.ret = None]

\* Editor::open_file: file is None when the path does not exist, else
\* Some(text of the file); an existing file may fail to be read
open_file(e, path, file, readable) ==
  IF file # None /\ ~readable
  THEN [e EXCEPT
          !.buffer_cursors = put(@, e.current_buffer, e.cursor),
          !.next_buffer_id = @ + 1,
          !.ret = Err(<< "io" >>)]
  ELSE [e EXCEPT
          !.buffer_cursors = put(@, e.current_buffer, e.cursor),
          !.next_buffer_id = @ + 1,
          !.buffers = put(@, e.next_buffer_id,
                          IF file = None
                          THEN Buffer_new_with_path(e.next_buffer_id, path)
                          ELSE Buffer_from_file(e.next_buffer_id, path, Unwrap(file))),
          !.current_buffer = e.next_buffer_id,
          !.cursor = IF e.next_buffer_id = e.current_buffer THEN e.cursor
                     ELSE remembered_cursor(e, e.next_buffer_id),
          !.mode = "Normal",
          !.ret = Ok]

\* self.buffers.keys().find(|&&id| id != buffer_id): the HashMap yields its
\* keys in an unspecified order, so any other open buffer may be the one found
OtherBuffers(e, buffer_id) ==
  IF DOMAIN e.buffers \ {buffer_id} = {} THEN {None}
  ELSE {Some(id) : id \in DOMAIN e.buffers \ {buffer_id}}

\* delete_buffer(_force), no other buffer open: a new empty buffer is made
\* the current one
replaced_by_new(e) ==
  [e EXCEPT
     !.next_buffer_id = @ + 1,
     !.buffers = put(@, e.next_buffer_id, Buffer_new(e.next_buffer_id)),
     !.buffer_cursors = put(@, e.next_buffer_id, at_origin),
     !.current_buffer = e.next_buffer_id,
     !.cursor = at_origin]

\* delete_buffer(_force): the buffer and its cursor record are removed
removed(e, buffer_id) ==
  [e EXCEPT !.buffers = without(@, buffer_id),
            !.buffer_cursors = without(@, buffer_id),
            !.ret = Ok]

\* a delete_buffer_force that removes the last buffer without a replacement
delete_buffer_force_emptying(e, buffer_id, other) ==
  IF buffer_id \notin DOMAIN e.buffers
  THEN Returns(e, Err(<< "no buffer", ToString(buffer_id) >>))
  ELSE removed(IF buffer_id = e.current_buffer /\ other # None
               THEN switch_buffer(e, Unwrap(other)) ELSE e, buffer_id)

\* Editor::delete_buffer_force; other is the buffer keys().find(..) yields
delete_buffer_force(e, buffer_id, other) ==
  IF buffer_id \notin DOMAIN e.buffers
  THEN Returns(e, Err(<< "no buffer", ToString(buffer_id) >>))
  ELSE removed(IF buffer_id # e.current_buffer THEN e
               ELSE IF other # None THEN switch_buffer(e, Unwrap(other))
               ELSE replaced_by_new(e), buffer_id)

\* Editor::delete_buffer
delete_buffer(e, buffer_id, other) ==
  IF buffer_id \notin DOMAIN e.buffers
  THEN Returns(e, Err(<< "no buffer", ToString(buffer_id) >>))
  ELSE IF e.buffers[buffer_id].modified
  THEN Returns(e, Err(<< "unsaved changes", ToString(buffer_id) >>))
  ELSE delete_buffer_force(e, buffer_id, other)

saved_text_verbatim(rope) == rope

\* the text Buffer::save writes to the file: the chunks of the rope, and a
\* newline if the rope is not empty and does not end in one
saved_text(rope) ==
  IF Len(rope) > 0 /\ rope[Len(rope)] # NL THEN rope \o << NL >> ELSE rope

\* Buffer::save; the file system lets the write succeed or not
Buffer_save(b, io_ok) == IF IsSome(b.file_path) /\ io_ok THEN [b EXCEPT !.modified = FALSE] ELSE b
Buffer_save_ret(b, io_ok) ==
  IF ~IsSome(b.file_path) THEN Err(<< "No file path set" >>)
  ELSE IF ~io_ok THEN Err(<< "io" >>)
  ELSE Ok

\* Editor::save and Editor::save_as
save(e, io_ok) ==
  Returns(with_buffer(e, Buffer_save(current_buffer(e), io_ok)),
          Buffer_save_ret(current_buffer(e), io_ok))
save_as(e, path, io_ok) ==
  save(with_buffer(e, [current_buffer(e) EXCEPT !.file_path = Some(path)]), io_ok)

\* Editor::set_option
set_option(e, option) ==
  IF option \in {"nu", "number"}
  THEN Returns(set_message([e EXCEPT !.options.number = TRUE],
                           << "Enabled line numbers" >>), Ok)
  ELSE IF option \in {"nonu", "nonumber"}
  THEN Returns(set_message([e EXCEPT !.options.number = FALSE],
                           << "Disabled line numbers" >>), Ok)
  ELSE IF option \in {"rnu", "relativenumber"}
  THEN Returns(set_message([e EXCEPT !.options.relativenumber = TRUE],
                           << "Enabled relative line numbers" >>), Ok)
  ELSE IF option \in {"nornu", "norelativenumber"}
  THEN Returns(set_message([e EXCEPT !.options.relativenumber = FALSE],
                           << "Disabled relative line numbers" >>), Ok)
  ELSE IF option = "cursorline"
  THEN Returns(set_message([e EXCEPT !.options.cursorline = TRUE],
                           << "Enabled cursor line highlighting" >>), Ok)
  ELSE IF option = "nocursorline"
  THEN Returns(set_message([e EXCEPT !.options.cursorline = FALSE],
                           << "Disabled cursor line highlighting" >>), Ok)
  ELSE Returns(e, Err(<< "Unknown option", option >>))

\* a parse that takes a word that is no number for 0
parse_usize_or_zero(word) == IF is_digit(word) THEN Some(to_digit(word)) ELSE Some(0)

\* str::parse::<usize> of a word of one character
parse_usize(word) == IF is_digit(word) THEN Some(to_digit(word)) ELSE None

\* execute_command, what follows the call r of save or save_as in w / write
after_save(r) == IF is_ok(r.ret) THEN Returns(set_message(r, << "Saved" >>), Ok) ELSE r

\* execute_command, what follows the call r of switch_buffer in b / buffer
after_switch(r) ==
  IF is_ok(r.ret)
  THEN [r EXCEPT !.message = Some(<< "Switched to buffer", ToString(r.current_buffer) >>),
                 !.show_buffer_list = FALSE]
  ELSE r

\* execute_command, what follows the call r of next_buffer or prev_buffer in
\* bn / bp: the error becomes the message and the command returns Ok
after_cycle(r) ==
  IF is_ok(r.ret) THEN after_switch(r)
  ELSE Returns(set_message(r, r.ret[2]), Ok)

\* execute_command, what follows the call r of delete_buffer(_force)
after_delete(r, buffer_id) ==
  IF is_ok(r.ret) THEN set_message(r, << "Deleted buffer", ToString(buffer_id) >>) ELSE r

\* execute_command, new
after_new(r) ==
  Returns(set_message(r, << "Created new buffer", ToString(r.current_buffer) >>), Ok)

\* execute_command, what follows the call r of open_file in e / edit
after_open(r, path) ==
  IF is_ok(r.ret) THEN set_message(r, << "Opened", path >>)
  ELSE Returns(r, Err(<< "Failed to open", path >>))

\* the command words of execute_command
QuitWords == {"q", "quit"}
WriteWords == {"w", "write"}
NextWords == {"bn", "bnext", "next"}
PrevWords == {"bp", "bprev", "bprevious", "prev"}

\* Editor::execute_command on the words parts of the command line (the
\* substitute commands are substitute above).  other is the buffer that
\* keys().find(..) yields in bd, file and readable the file e opens, io_ok
\* whether w can write.
execute_command(e, parts, other, file, readable, io_ok) ==
  IF parts = << >> THEN Returns(e, Ok)
  ELSE IF parts[1] \in WriteWords
  THEN after_save(IF Len(parts) > 1 THEN save_as(e, parts[2], io_ok) ELSE save(e, io_ok))
  ELSE IF parts[1] \in QuitWords
  THEN IF current_buffer(e).modified
       THEN Returns(e, Err(<< "No write since last change (add ! to override)" >>))
       ELSE Returns(e, Ok)
  ELSE IF parts[1] = "q!" THEN Returns(e, Ok)
  ELSE IF parts[1] = "wq" THEN save(e, io_ok)
  ELSE IF parts[1] = "qa" THEN Returns(e, Ok)
  ELSE IF parts[1] = "set"
  THEN IF Len(parts) > 1 THEN set_option(e, parts[2]) ELSE Returns(e, Ok)
  ELSE IF parts[1] \in {"reg", "registers"}
  THEN Returns([e EXCEPT !.show_registers_panel = TRUE], Ok)
  ELSE IF parts[1] \in {"ls", "buffers"}
  THEN Returns([e EXCEPT !.show_buffer_list = TRUE], Ok)
  ELSE IF parts[1] \in {"b", "buffer"}
  THEN IF Len(parts) <= 1 THEN Returns(e, Err(<< "Buffer ID required" >>))
       ELSE IF parse_usize(parts[2]) = None THEN Returns(e, Err(<< "Invalid buffer ID" >>))
       ELSE after_switch(switch_buffer(e, Unwrap(parse_usize(parts[2]))))
  ELSE IF parts[1] \in NextWords THEN after_cycle(next_buffer(e))
  ELSE IF parts[1] \in PrevWords THEN after_cycle(prev_buffer(e))
  ELSE IF parts[1] \in {"bd", "bdelete"}
  THEN IF Len(parts) <= 1
       THEN after_delete(delete_buffer(e, e.current_buffer, other), e.current_buffer)
       ELSE IF parse_usize(parts[2]) = None THEN Returns(e, Err(<< "Invalid buffer ID" >>))
       ELSE after_delete(delete_buffer(e, Unwrap(parse_usize(parts[2])), other),
                         Unwrap(parse_usize(parts[2])))
  ELSE IF parts[1] \in {"bd!", "bdelete!"}
  THEN IF Len(parts) <= 1
       THEN after_delete(delete_buffer_force(e, e.current_buffer, other), e.current_buffer)
       ELSE IF parse_usize(parts[2]) = None THEN Returns(e, Err(<< "Invalid buffer ID" >>))
       ELSE after_delete(delete_buffer_force(e, Unwrap(parse_usize(parts[2])), other),
                         Unwrap(parse_usize(parts[2])))
  ELSE IF parts[1] = "new" THEN after_new(create_new_buffer(e))
  ELSE IF parts[1] \in {"e", "edit"}
  THEN IF Len(parts) <= 1 THEN Returns(e, Err(<< "Filename required" >>))
       ELSE after_open(open_file(e, parts[2], file, readable), parts[2])
  ELSE Returns(e, Err(<< "Unknown command", parts[1] >>))

\* ---- search of the Editor (editor.rs) ----

\* if let (Some(i), Some(p)) = (idx, pos): the match becomes the current one
\* and the cursor goes to it
jump_to_match(e, idx) ==
  IF IsSome(idx) /\ IsSome(get_match_pos(e.search_state, Unwrap(idx)))
  THEN IF from_char_idx_ok(current_buffer(e).rope,
                           Unwrap(get_match_pos(e.search_state, Unwrap(idx))))
       THEN [e EXCEPT
               !.search_state = set_current_match(@, Unwrap(idx)),
               !.cursor = from_char_idx(current_buffer(e).rope,
                                        Unwrap(get_match_pos(e.search_state, Unwrap(idx)))),
               !.ret = None]
       ELSE Panics(e)
  ELSE Returns(e, None)

\* the Editor after set_pattern and set_search
searching(e, direction, pattern) ==
  [e EXCEPT !.search_state = set_pattern(@, pattern, direction, current_buffer(e)),
            !.register_manager.search = Register_new(pattern, FALSE)]

start_search_from(e) ==
  IF calc_match_ok(e.search_state, e.cursor, current_buffer(e))
  THEN jump_to_match(e, calc_first_match(e.search_state, e.cursor, current_buffer(e)))
  ELSE Panics(e)

start_search(e, direction, pattern) ==
  IF pattern = << >> THEN Returns(e, None)
  ELSE start_search_from(searching(e, direction, pattern))

search_next(e) ==
  IF calc_match_ok(e.search_state, e.cursor, current_buffer(e))
  THEN jump_to_match(e, calc_next_match(e.search_state, e.cursor, current_buffer(e)))
  ELSE Panics(e)

search_prev(e) ==
  IF calc_match_ok(e.search_state, e.cursor, current_buffer(e))
  THEN jump_to_match(e, calc_prev_match(e.search_state, e.cursor, current_buffer(e)))
  ELSE Panics(e)

clear_search(e) == [e EXCEPT !.search_state = SearchState_clear(@), !.ret = None]

\* ---- the terminal front end (aivim-tui App), its search keys ----
\* Keys are named by their KeyCode: "Enter", "Esc", "Backspace", or the
\* character of KeyCode::Char.

\* App::handle_normal_mode for the keys / ? n N
handle_normal_mode(e, key) ==
  CASE key = "/" -> [set_mode(e, "SearchForward") EXCEPT !.command_line = << >>]
    [] key = "?" -> [set_mode(e, "SearchBackward") EXCEPT !.command_line = << >>]
    [] key = "n" -> search_next(e)
    [] key = "N" -> search_prev(e)
    [] OTHER -> e

\* the direction handle_search_mode derives from the Editor's mode
direction_of(mode) ==
  CASE mode = "SearchForward" -> "Forward"
    [] mode = "SearchBackward" -> "Backward"
    [] OTHER -> "Forward"

\* KeyCode::Enter in handle_search_mode, the Editor already back in Normal
\* mode and its command line cleared
confirm_search(e, pattern) ==
  IF pattern # << >> THEN start_search(e, direction_of(e.mode), pattern)
  ELSE Returns(e, None)

\* App::handle_search_mode
handle_search_mode(e, key) ==
  CASE key = "Esc" -> [set_mode(e, "Normal") EXCEPT !.command_line = << >>]
    [] key = "Enter" ->
         confirm_search(set_mode([e EXCEPT !.command_line = << >>], "Normal"),
                        e.command_line)
    [] key = "Backspace" ->
         [e EXCEPT !.command_line = Slice(@, 0, SatSub(Len(@), 1)), !.ret = None]
    [] OTHER -> [e EXCEPT !.command_line = Append(@, key), !.ret = None]

\* App::handle_key_event (the registers panel closed)
handle_key_event(e, key) ==
  CASE e.mode = "Normal" -> handle_normal_mode(e, key)
    [] e.mode \in {"SearchForward", "SearchBackward"} -> handle_search_mode(e, key)
    [] OTHER -> e

\* ------------------------------------------------------------ the machine
\* editor: the Editor.  fuel: calls still to be made.  History: last is the
\* call made last (name and arguments), pre the Editor just before it,
\* session the undo depth and text at the start of the running Insert session
\* (None outside one), log the register updates made directly on the register
\* manager, dirty the open buffers whose text a call has changed since they
\* were created, loaded or last written.
VARIABLES editor, last, pre, fuel, session, log, dirty
vars == << editor, last, pre, fuel, session, log, dirty >>

\* every text of at most n characters over the characters cs
TextsOver(cs, n) == UNION {[1..k -> cs] : k \in 0..n}
Texts == TextsOver(Alphabet, MaxLen)
SessionTexts == TextsOver({"a", NL}, SessionLen)

\* cursor positions of a text: a line of it, a column on a character or just
\* past the last one (where Insert mode leaves the cursor)
Positions(text) ==
  {Cursor_new(p[1], p[2]) :
     p \in {q \in (0..Len(text)) \X (0..Len(text)) :
              q[1] < len_lines(text) /\ q[2] <= Len(line_text(text, q[1]))}}

\* Editor::new with the text put into its buffer (path = None), or
\* Editor::open_file of a file that holds the text; the cursor placed
Loaded(text, path, c) ==
  IF path = None
  THEN [Editor_new EXCEPT !.buffers[0] = Buffer_insert(Buffer_new(0), 0, text), !.cursor = c]
  ELSE [open_file(Editor_new, Unwrap(path), Some(text), TRUE) EXCEPT
          !.cursor = c, !.ret = None]

InitWith(texts, paths, n) ==
  /\ \E text \in texts : \E c \in Positions(text) : \E path \in paths :
       editor = Loaded(text, path, c)
  /\ last = [op |-> "new", args |-> << >>]
  /\ pre = editor
  /\ fuel = n
  /\ session = None
  /\ log = << >>
  /\ dirty = {}

Paths == {None, Some("f")}

Init == InitWith(Texts, Paths, MaxSteps)

\* the calls an Insert session consists of
SessionCalls == {"insert_char", "insert_newline", "backspace"}

\* the buffers whose text differs between the Editor e0 and the Editor e
Rewritten(e0, e) ==
  {id \in DOMAIN e0.buffers \cap DOMAIN e.buffers : e0.buffers[id].rope # e.buffers[id].rope}

\* the buffers a call has written to their files: the current one after a
\* w, write or wq that returned Ok
Written(op, args, e) ==
  IF /\ op = "execute_command" /\ args[1] # << >>
     /\ args[1][1] \in WriteWords \cup {"wq"} /\ is_ok(e.ret)
  THEN {e.current_buffer} ELSE {}

\* one call of the Editor's interface, but for the log
Made(op, args, e) ==
  /\ fuel > 0
  /\ ~editor.crashed
  /\ editor' = e
  /\ last' = [op |-> op, args |-> args]
  /\ pre' = editor
  /\ fuel' = fuel - 1
  /\ session' =
       IF op = "set_mode" /\ args[1] = "Insert" /\ editor.mode = "Normal"
       THEN Some([base |-> Len(editor.undo_stack),
                  content |-> current_buffer(editor).rope])
       ELSE IF op \in SessionCalls /\ ~e.crashed THEN session
       ELSE None
  /\ dirty' = (((dirty \cap DOMAIN e.buffers) \ Written(op, args, e))
                 \cup Rewritten(editor, e))

\* one call of the Editor's interface
Call(op, args, e) == Made(op, args, e) /\ UNCHANGED log

\* one call of the Editor's interface, the log keeping the call, the buffer
\* it was made in and whether it has pushed an undo snapshot
Traced(op, args, e) ==
  /\ Made(op, args, e)
  /\ log' = Append(log, [op |-> op, buffer |-> editor.current_buffer,
                         snapshot |-> Len(e.undo_stack) > Len(editor.undo_stack)])

ExecuteMotion ==
  \E m \in Motions : Call("execute_motion", << m >>, execute_motion(editor, m))
ExecuteEdit ==
  \E edit \in Edits : \E ch \in TypedChars :
    Call("execute_edit", << edit >>, execute_edit(editor, edit, ch))
SetMode ==
  \E m \in Modes : Call("set_mode", << m >>, set_mode(editor, m))
InsertChar ==
  \E ch \in TypedChars : Call("insert_char", << ch >>, insert_char(editor, ch))
InsertNewline == Call("insert_newline", << >>, insert_newline(editor))
Backspace == Call("backspace", << >>, backspace(editor))
DeleteChar == Call("delete_char", << >>, delete_char(editor))
YankLine ==
  \E reg \in Registers : Call("yank_line", << reg >>, yank_line(editor, reg))
Paste ==
  \E reg \in Registers : \E before \in BOOLEAN :
    Call("paste", << reg, before >>, paste(editor, reg, before))
DeleteLine ==
  \E reg \in Registers : Call("delete_line", << reg >>, delete_line(editor, reg))
DeleteCharToRegister ==
  \E reg \in Registers :
    Call("delete_char_to_register", << reg >>, delete_char_to_register(editor, reg))
DeleteToMotion ==
  \E m \in Motions : \E reg \in Registers :
    Call("delete_to_motion", << m, reg >>, delete_to_motion_with_register(editor, m, reg))
YankToMotion ==
  \E m \in Motions : \E reg \in Registers :
    Call("yank_to_motion", << m, reg >>, yank_to_motion_with_register(editor, m, reg))
DeleteTextObject ==
  \E obj \in TextObjects : Call("delete_text_object", << obj >>, delete_text_object(editor, obj))
YankTextObject ==
  \E obj \in TextObjects : Call("yank_text_object", << obj >>, yank_text_object(editor, obj))
Substitute ==
  \E global \in BOOLEAN : \E full_file \in BOOLEAN :
    Call("substitute", << global, full_file >>,
         substitute(editor, << "a" >>, << "b" >>, global, full_file))
Undo == Call("undo", << >>, undo(editor))
Redo == Call("redo", << >>, redo(editor))

Next ==
  \/ ExecuteMotion \/ ExecuteEdit \/ SetMode \/ InsertChar \/ InsertNewline
  \/ Backspace \/ DeleteChar \/ YankLine \/ Paste \/ DeleteLine
  \/ DeleteCharToRegister \/ DeleteToMotion \/ YankToMotion
  \/ DeleteTextObject \/ YankTextObject \/ Substitute \/ Undo \/ Redo

\* every call of the Editor on every short text
Spec == Init /\ [][Next]_vars

\* every sequence of SeqSteps calls on the shortest texts
InitSeq == InitWith(SessionTexts, Paths, SeqSteps)
SpecSeq == InitSeq /\ [][Next]_vars

\* an insert and undo session: longer runs of the calls that type, delete
\* and undo, on the shortest texts
InitSession == InitWith(SessionTexts, Paths, SessionSteps)
NextSession ==
  \/ SetMode \/ InsertChar \/ InsertNewline \/ Backspace \/ DeleteChar
  \/ ExecuteEdit \/ YankLine \/ Paste \/ Undo \/ Redo
SpecSession == InitSession /\ [][NextSession]_vars

\* the buffers of an Editor: calls that open, create, switch and close
\* buffers, with cursor moves and typing between them
BufferIds == 0..MaxBufferId
BufferTexts == {<< >>, << "a", NL, "a" >>}
Files == {None, Some(<< "a" >>)}

OpenFile ==
  \E file \in Files : \E readable \in IF file = None THEN {TRUE} ELSE BOOLEAN :
    Call("open_file", << "g", file, readable >>, open_file(editor, "g", file, readable))
CreateNewBuffer == Call("create_new_buffer", << >>, create_new_buffer(editor))
SwitchBuffer ==
  \E id \in BufferIds : Call("switch_buffer", << id >>, switch_buffer(editor, id))
NextBuffer == Call("next_buffer", << >>, next_buffer(editor))
PrevBuffer == Call("prev_buffer", << >>, prev_buffer(editor))
DeleteBuffer ==
  \E id \in BufferIds : \E other \in OtherBuffers(editor, id) :
    Call("delete_buffer", << id, other >>, delete_buffer(editor, id, other))
DeleteBufferForce ==
  \E id \in BufferIds : \E other \in OtherBuffers(editor, id) :
    Call("delete_buffer_force", << id, other >>, delete_buffer_force(editor, id, other))

InitBuffers == InitWith(BufferTexts, Paths, BufferSteps)
NextBuffers ==
  \/ OpenFile \/ CreateNewBuffer \/ SwitchBuffer \/ NextBuffer \/ PrevBuffer
  \/ DeleteBuffer \/ DeleteBufferForce \/ ExecuteMotion \/ InsertChar
SpecBuffers == InitBuffers /\ [][NextBuffers]_vars

\* the command line of an Editor: execute_command on the words of a command,
\* with typing, substitution, undo and redo between the commands, on a
\* buffer whose read_only flag the caller sets (current_buffer_mut)
Commands ==
  {<< >>, << "w" >>, << "write", "g" >>, << "q" >>, << "quit" >>, << "q!" >>, << "wq" >>,
   << "qa" >>, << "set" >>, << "set", "nu" >>, << "set", "nocursorline" >>,
   << "set", "bogus" >>, << "reg" >>, << "ls" >>, << "b" >>, << "buffer" >>,
   << "b", "0" >>, << "b", "1" >>, << "b", "x" >>, << "bn" >>, << "bnext" >>,
   << "next" >>, << "bp" >>, << "bprev" >>, << "bprevious" >>, << "prev" >>,
   << "bd" >>, << "bd", "0" >>, << "bd", "x" >>, << "bd!" >>, << "bd!", "x" >>,
   << "new" >>, << "e" >>, << "edit" >>, << "e", "g" >>, << "bogus" >>}

ExecuteCommand ==
  \E parts \in Commands :
    \E other \in OtherBuffers(editor, editor.current_buffer) :
      \E file \in IF parts = << "e", "g" >> THEN Files ELSE {None} :
        \E readable \in IF file = None THEN {TRUE} ELSE BOOLEAN :
          \E io_ok \in IF parts # << >> /\ parts[1] \in WriteWords \cup {"wq"}
                       THEN BOOLEAN ELSE {TRUE} :
            Call("execute_command", << parts, other, file, readable, io_ok >>,
                 execute_command(editor, parts, other, file, readable, io_ok))
SetReadOnly ==
  \E read_only \in BOOLEAN :
    Call("set_read_only", << read_only >>,
         Returns(with_buffer(editor, Buffer_set_read_only(current_buffer(editor), read_only)),
                 None))

InitCommands == InitWith(BufferTexts, Paths, CommandSteps)
NextCommands ==
  \/ ExecuteCommand \/ SetReadOnly \/ InsertChar \/ DeleteChar \/ Substitute
  \/ Undo \/ Redo
SpecCommands == InitCommands /\ [][NextCommands]_vars

\* the register manager alone (Editor::register_manager_mut): the k-th update
\* writes the text Content(k)
Content(k) == << "c", ToString(k) >>

InitReg ==
  /\ editor = Editor_new
  /\ last = [op |-> "new", args |-> << >>]
  /\ pre = editor
  /\ fuel = RegSteps
  /\ session = None
  /\ log = << >>
  /\ dirty = {}

RegCall(kind, rm) ==
  /\ fuel > 0
  /\ editor' = [editor EXCEPT !.register_manager = rm, !.ret = None]
  /\ last' = [op |-> kind, args |-> << Content(Len(log) + 1) >>]
  /\ pre' = editor
  /\ fuel' = fuel - 1
  /\ log' = Append(log, [kind |-> kind, content |-> Content(Len(log) + 1)])
  /\ UNCHANGED << session, dirty >>

SetUnnamed ==
  RegCall("set_unnamed",
          RegisterManager_set_unnamed(editor.register_manager, Content(Len(log) + 1), FALSE))
SetUnnamedYank ==
  RegCall("set_unnamed_yank",
          RegisterManager_set_unnamed_yank(editor.register_manager,
                                           Content(Len(log) + 1), FALSE))
SetUnnamedDelete ==
  RegCall("set_unnamed_delete",
          RegisterManager_set_unnamed_delete(editor.register_manager,
                                             Content(Len(log) + 1), FALSE))

NextReg == SetUnnamed \/ SetUnnamedYank \/ SetUnnamedDelete
SpecReg == InitReg /\ [][NextReg]_vars

\* the named registers alone: RegisterManager::set on a letter, lowercase
\* or uppercase
NamedTexts == {<< "x" >>, << "y", NL >>}

SetNamed ==
  \E name \in LowerLetters \cup UpperLetters : \E content \in NamedTexts :
    \E linewise \in BOOLEAN :
      /\ fuel > 0
      /\ editor' = [editor EXCEPT
                      !.register_manager =
                        RegisterManager_set(@, name, content, linewise),
                      !.ret = None]
      /\ last' = [op |-> "set", args |-> << name, content, linewise >>]
      /\ pre' = editor
      /\ fuel' = fuel - 1
      /\ log' = Append(log, [kind |-> "set", name |-> name, content |-> content,
                             linewise |-> linewise])
      /\ UNCHANGED << session, dirty >>

InitNamed ==
  /\ editor = Editor_new
  /\ last = [op |-> "new", args |-> << >>]
  /\ pre = editor
  /\ fuel = NamedSteps
  /\ session = None
  /\ log = << >>
  /\ dirty = {}

SpecNamed == InitNamed /\ [][SetNamed]_vars

\* one Buffer alone (Editor::current_buffer_mut): the mutating calls of a
\* Buffer with any offset, on a buffer whose flags are set or not
BufferOffsets == 0..(MaxLen + 2)

\* ---- calls on the SearchState of the Editor ----

SearchTexts ==
  {<< >>, << "a" >>, << "a", ".", "a" >>, << "a", "a", "a" >>, << "a", NL, "a" >>}
SearchPatterns == {<< >>, << "a" >>, << "a", "a" >>, << "." >>}
SearchDirections == {"Forward", "Backward"}
SearchCursors == {Cursor_new(l, c) : l \in 0..2, c \in 0..MaxLen}

InitSearch == InitWith(SearchTexts, {None}, SearchSteps)

SetPattern ==
  \E pattern \in SearchPatterns : \E direction \in SearchDirections :
    Call("SearchState::set_pattern", << pattern, direction >>,
         [editor EXCEPT
            !.search_state = set_pattern(@, pattern, direction, current_buffer(editor)),
            !.ret = None])
CalcNextMatch ==
  \E cursor \in SearchCursors :
    Call("SearchState::calc_next_match", << cursor >>,
         IF calc_match_ok(editor.search_state, cursor, current_buffer(editor))
         THEN Returns(editor, calc_next_match(editor.search_state, cursor,
                                              current_buffer(editor)))
         ELSE Panics(editor))
CalcPrevMatch ==
  \E cursor \in SearchCursors :
    Call("SearchState::calc_prev_match", << cursor >>,
         IF calc_match_ok(editor.search_state, cursor, current_buffer(editor))
         THEN Returns(editor, calc_prev_match(editor.search_state, cursor,
                                              current_buffer(editor)))
         ELSE Panics(editor))

NextSearch == SetPattern \/ CalcNextMatch \/ CalcPrevMatch \/ InsertChar

SpecSearch == InitSearch /\ [][NextSearch]_vars

\* ---- searching while editing ----

InitFind == InitWith(SearchTexts, {None}, FindSteps)

StartSearch ==
  \E pattern \in SearchPatterns : \E direction \in SearchDirections :
    Call("start_search", << direction, pattern >>, start_search(editor, direction, pattern))
SearchNext == Call("search_next", << >>, search_next(editor))
SearchPrev == Call("search_prev", << >>, search_prev(editor))
ClearSearch == Call("clear_search", << >>, clear_search(editor))

NextFind ==
  \/ StartSearch \/ SearchNext \/ SearchPrev \/ ClearSearch
  \/ DeleteChar \/ Substitute \/ Undo \/ Redo \/ CreateNewBuffer \/ SwitchBuffer

SpecFind == InitFind /\ [][NextFind]_vars

InitBuf ==
  /\ \E text \in Texts : \E modified \in BOOLEAN : \E read_only \in BOOLEAN :
       editor = [Editor_new EXCEPT
                   !.buffers[0] = [id |-> 0, rope |-> text, file_path |-> None,
                                   modified |-> modified, read_only |-> read_only]]
  /\ last = [op |-> "new", args |-> << >>]
  /\ pre = editor
  /\ fuel = BufSteps
  /\ session = None
  /\ log = << >>
  /\ dirty = {}

\* a call on the Buffer: it panics unless ok, else leaves the buffer b and
\* returns v
BufCall(op, args, ok, b, v) ==
  /\ fuel > 0
  /\ ~editor.crashed
  /\ editor' = IF ok THEN Returns(with_buffer(editor, b), v) ELSE Panics(editor)
  /\ last' = [op |-> op, args |-> args]
  /\ pre' = editor
  /\ fuel' = fuel - 1
  /\ UNCHANGED << session, log, dirty >>

BufferInsert ==
  \E idx \in BufferOffsets : \E t \in {<< >>, << "b" >>} :
    BufCall("Buffer::insert", << idx, t >>, insert_ok(current_buffer(editor), idx),
            Buffer_insert(current_buffer(editor), idx, t), None)
BufferInsertChar ==
  \E idx \in BufferOffsets : \E ch \in TypedChars :
    BufCall("Buffer::insert_char", << idx, ch >>, insert_ok(current_buffer(editor), idx),
            Buffer_insert_char(current_buffer(editor), idx, ch), None)
BufferRemove ==
  \E idx \in BufferOffsets : \E n \in 0..2 :
    BufCall("Buffer::remove", << idx, n >>, remove_ok(current_buffer(editor), idx, n),
            Buffer_remove(current_buffer(editor), idx, n), None)
BufferRemoveChar ==
  \E idx \in BufferOffsets :
    BufCall("Buffer::remove_char", << idx >>, TRUE,
            Buffer_remove_char(current_buffer(editor), idx),
            remove_char_ret(current_buffer(editor), idx))
BufferSetReadOnly ==
  \E read_only \in BOOLEAN :
    BufCall("Buffer::set_read_only", << read_only >>, TRUE,
            Buffer_set_read_only(current_buffer(editor), read_only), None)

NextBuf ==
  BufferInsert \/ BufferInsertChar \/ BufferRemove \/ BufferRemoveChar
    \/ BufferSetReadOnly
SpecBuf == InitBuf /\ [][NextBuf]_vars

\* ---- moving along a line ----

RepeatCounts == 0..MaxLen

InitHorizontal == InitWith(Texts, {None}, HorizontalSteps)

CursorMoveLeft ==
  \E count \in RepeatCounts :
    Call("Cursor::move_left", << count >>,
         [editor EXCEPT !.cursor = Cursor_move_left(@, current_buffer(editor).rope, count),
                        !.ret = None])
CursorMoveRight ==
  \E count \in RepeatCounts :
    Call("Cursor::move_right", << count >>,
         [editor EXCEPT !.cursor = Cursor_move_right(@, current_buffer(editor).rope, count),
                        !.ret = None])

NextHorizontal == CursorMoveLeft \/ CursorMoveRight \/ ExecuteMotion

SpecHorizontal == InitHorizontal /\ [][NextHorizontal]_vars

\* ---- moving over lines of different lengths ----

VerticalTexts ==
  {<< "a", "a", NL, NL, "a", "a" >>, << "a", "a", NL, "a", NL, "a", "a" >>,
   << "a", NL, "a", "a", "a" >>}

InitVertical == InitWith(VerticalTexts, {None}, VerticalSteps)

SpecVertical == InitVertical /\ [][ExecuteMotion]_vars

\* ---- conversions between cursors and offsets ----

AnyCursors ==
  {[line |-> l, column |-> c, preferred_column |-> p] :
     l \in 0..MaxLen, c \in 0..(MaxLen + 1), p \in {None, Some(1)}}

InitCursor ==
  /\ \E text \in Texts : \E c \in AnyCursors : editor = Loaded(text, None, c)
  /\ last = [op |-> "new", args |-> << >>]
  /\ pre = editor
  /\ fuel = CursorSteps
  /\ session = None
  /\ log = << >>
  /\ dirty = {}

ToCharIdx ==
  Call("Cursor::to_char_idx", << >>,
       IF to_char_idx_ok(editor.cursor, current_buffer(editor).rope)
       THEN Returns(editor, Some(to_char_idx(editor.cursor, current_buffer(editor).rope)))
       ELSE Panics(editor))
FromCharIdx ==
  \E idx \in 0..(2 * MaxLen + 1) :
    Call("Cursor::from_char_idx", << idx >>,
         IF from_char_idx_ok(current_buffer(editor).rope, idx)
         THEN [editor EXCEPT !.cursor = from_char_idx(current_buffer(editor).rope, idx),
                             !.ret = None]
         ELSE Panics(editor))

NextCursor == ToCharIdx \/ FromCharIdx

SpecCursor == InitCursor /\ [][NextCursor]_vars

\* ---- saving a Buffer and reading it back ----
\* log: the successful writes to the file, the latest last

SaveTexts == TextsOver({"a", NL}, MaxLen)

InitSave ==
  /\ \E text \in SaveTexts : \E modified \in BOOLEAN :
       editor = [Editor_new EXCEPT
                   !.buffers[0] = [id |-> 0, rope |-> text, file_path |-> Some("g"),
                                   modified |-> modified, read_only |-> FALSE]]
  /\ last = [op |-> "new", args |-> << >>]
  /\ pre = editor
  /\ fuel = SaveSteps
  /\ session = None
  /\ log = << >>
  /\ dirty = {}

\* Buffer::save; when the file cannot be created nothing is written
BufferSave ==
  \E io_ok \in BOOLEAN :
    /\ fuel > 0
    /\ editor' = save(editor, io_ok)
    /\ last' = [op |-> "Buffer::save", args |-> << io_ok >>]
    /\ pre' = editor
    /\ fuel' = fuel - 1
    /\ log' = IF is_ok(Buffer_save_ret(current_buffer(editor), io_ok))
              THEN Append(log, [kind |-> "write",
                                path |-> Unwrap(current_buffer(editor).file_path),
                                content |-> current_buffer(editor).rope,
                                text |-> saved_text(current_buffer(editor).rope)])
              ELSE log
    /\ UNCHANGED << session, dirty >>

\* Buffer::from_file on the path that was written
BufferFromFile ==
  /\ log # << >>
  /\ BufCall("Buffer::from_file", << log[Len(log)].path >>, TRUE,
             Buffer_from_file(0, log[Len(log)].path, log[Len(log)].text), None)

NextSave == BufferSave \/ BufferFromFile \/ BufferInsert

SpecSave == InitSave /\ [][NextSave]_vars

\* ---- calls of parse_substitute_command ----

CommandPatterns == TextsOver({"a", "g", "s"}, 2) \ {<< >>}
CommandReplacements == TextsOver({"a", "g"}, 2)

\* the text of the command [:]s/pat/rep[/g] or [:]%s/pat/rep[/g]
SubstituteCommand(pat, rep, global, full_file, colon) ==
  (IF colon THEN << ":" >> ELSE << >>)
  \o (IF full_file THEN << "%" >> ELSE << >>)
  \o << "s", "/" >> \o pat \o << "/" >> \o rep
  \o (IF global THEN << "/", "g" >> ELSE << >>)

InitParse ==
  /\ editor = Editor_new
  /\ last = [op |-> "new", args |-> << >>]
  /\ pre = editor
  /\ fuel = ParseSteps
  /\ session = None
  /\ log = << >>
  /\ dirty = {}

ParseSubstituteCommand ==
  \E pat \in CommandPatterns : \E rep \in CommandReplacements :
    \E global \in BOOLEAN : \E full_file \in BOOLEAN : \E colon \in BOOLEAN :
      Call("parse_substitute_command", << pat, rep, global, full_file, colon >>,
           Returns(editor, parse_substitute_command(
                             SubstituteCommand(pat, rep, global, full_file, colon))))

NextParse == ParseSubstituteCommand

SpecParse == InitParse /\ [][NextParse]_vars

\* ---- calls of replace_in_buffer ----

ReplaceTexts == TextsOver({"a", NL}, ReplaceLen)
ReplacePatterns == {<< >>, << "a" >>, << "a", "a" >>}
Replacements == {<< >>, << "b" >>, << "a", "a" >>}
LineRanges == {None} \cup {Some(<< i, j >>) : i \in 0..1, j \in 0..2}

InitReplace ==
  /\ \E text \in ReplaceTexts : editor = Loaded(text, None, at_origin)
  /\ last = [op |-> "new", args |-> << >>]
  /\ pre = editor
  /\ fuel = ReplaceSteps
  /\ session = None
  /\ log = << >>
  /\ dirty = {}

ReplaceInBuffer ==
  \E pattern \in ReplacePatterns : \E replacement \in Replacements :
    \E global \in BOOLEAN : \E line_range \in LineRanges :
      BufCall("replace_in_buffer", << pattern, replacement, global, line_range >>, TRUE,
              replace_in_buffer(current_buffer(editor), pattern, replacement, global,
                                line_range).buffer,
              replace_in_buffer(current_buffer(editor), pattern, replacement, global,
                                line_range).count)

NextReplace == ReplaceInBuffer

SpecReplace == InitReplace /\ [][NextReplace]_vars

\* ---- resolving text objects ----

\* texts with a tab and a letter of two bytes among their characters
ObjectTexts == TextsOver(Alphabet \cup {"\t", "é"}, ObjectLen)

InitObject == InitWith(ObjectTexts, {None}, ObjectSteps)

GetRange ==
  \E obj \in TextObjects :
    Call("TextObject::get_range", << obj >>,
         IF get_range_ok(obj, editor.cursor, current_buffer(editor).rope)
         THEN Returns(editor, get_range(obj, editor.cursor, current_buffer(editor).rope))
         ELSE Panics(editor))

NextObject == GetRange \/ DeleteTextObject \/ YankTextObject

SpecObject == InitObject /\ [][NextObject]_vars

\* ---- keys pressed in the terminal front end ----

\* the keys of Normal mode that have to do with searching, and the keys
\* pressed while a pattern is typed
NormalKeys == {"/", "?", "n", "N"}
SearchKeys == {"a", ".", "Enter", "Esc", "Backspace"}

InitKeys == InitWith(SearchTexts, {None}, KeySteps)

HandleKeyEvent ==
  \E key \in NormalKeys \cup SearchKeys :
    /\ editor.mode = "Normal" => key \in NormalKeys
    /\ editor.mode # "Normal" => key \in SearchKeys
    /\ Call("handle_key_event", << key >>, handle_key_event(editor, key))

NextKeys == HandleKeyEvent

SpecKeys == InitKeys /\ [][NextKeys]_vars

\* ---- mutations, buffer switches and undo, each call kept in the log ----

InitAcross == InitWith(BufferTexts, Paths, AcrossSteps)

TracedDeleteChar == Traced("delete_char", << >>, delete_char(editor))
TracedDeleteLine == Traced("delete_line", << None >>, delete_line(editor, None))
TracedSwitchBuffer ==
  \E id \in BufferIds : Traced("switch_buffer", << id >>, switch_buffer(editor, id))
TracedNextBuffer == Traced("next_buffer", << >>, next_buffer(editor))
TracedPrevBuffer == Traced("prev_buffer", << >>, prev_buffer(editor))
TracedCreateNewBuffer == Traced("create_new_buffer", << >>, create_new_buffer(editor))
TracedOpenFile ==
  \E file \in Files :
    Traced("open_file", << "g", file, TRUE >>, open_file(editor, "g", file, TRUE))
TracedUndo == Traced("undo", << >>, undo(editor))

NextAcross ==
  \/ TracedDeleteChar \/ TracedDeleteLine \/ TracedSwitchBuffer \/ TracedNextBuffer
  \/ TracedPrevBuffer \/ TracedCreateNewBuffer \/ TracedOpenFile \/ TracedUndo

SpecAcross == InitAcross /\ [][NextAcross]_vars

\* ---- going from match to match ----

\* texts with a letter of two bytes before the matches
CycleTexts == SearchTexts \cup {<< "é", "a", "a" >>, << "é", "a", NL, "a" >>}

InitCycle == InitWith(CycleTexts, {None}, CycleSteps)

NextCycle == SetPattern \/ SearchNext \/ SearchPrev

SpecCycle == InitCycle /\ [][NextCycle]_vars

\* -------------------------------------------------------------- properties
\* what undo and redo restore: content, cursor and file path
View(e) == << current_buffer(e).rope, e.cursor, current_buffer(e).file_path >>

\* the characters of a text
Chars(t) == {t[i] : i \in 1..Len(t)}

Ran == ~editor.crashed

MutatingCommands ==
  {"execute_edit", "delete_char", "delete_line", "delete_char_to_register",
   "delete_to_motion", "delete_text_object", "paste", "substitute"}

\* one undo gives back the state before the last call, one redo after it the
\* state the call produced
UndoRedoRoundTrip ==
  /\ View(undo(editor)) = View(pre)
  /\ View(redo(undo(editor))) = View(editor)

\* the calls that return before they take a snapshot: paste from a missing or
\* empty register, delete_char outside Normal mode, delete_line on a line the
\* buffer does not have
ReturnedEarly ==
  \/ /\ last.op = "paste"
     /\ LET got == RegisterManager_get(pre.register_manager, unwrap_or_unnamed(last.args[1]))
        IN got = None \/ Unwrap(got).content = << >>
  \/ last.op = "delete_char" /\ pre.mode # "Normal"
  \/ last.op = "delete_line" /\ ~has_line(current_buffer(pre).rope, pre.cursor.line)

\* C1 as stated: after every mutating command (execute_edit, delete_char,
\* delete_line, delete_char_to_register, delete_to_motion, delete_text_object,
\* paste, substitute) one undo restores the content, cursor and file path from
\* just before the command, and one redo after it restores what the command
\* had produced.
C1_UndoRedoAfterEveryCommand ==
  last.op \in MutatingCommands /\ Ran => UndoRedoRoundTrip

\* C1 amended: the round trip holds after every call of a mutating command
\* that took its snapshot, that is every call except a paste from a missing or
\* empty register, a delete_char outside Normal mode and a delete_line on a
\* missing line.
C1_UndoRedoAfterSnapshot ==
  last.op \in MutatingCommands /\ Ran /\ ~ReturnedEarly => UndoRedoRoundTrip

\* a command changed a file's text when snapshots were already on the stack
C1_CommandAfterCommand ==
  /\ last.op \in MutatingCommands /\ Ran /\ ~ReturnedEarly
  /\ Len(pre.undo_stack) > 0
  /\ current_buffer(editor).rope # current_buffer(pre).rope
  /\ IsSome(current_buffer(pre).file_path)

\* C2: every mutating entry point empties the redo stack: after a call other
\* than undo and redo has changed the text, the redo stack is empty and a
\* redo changes nothing.
C2_MutationClearsRedo ==
  /\ last.op \notin {"new", "undo", "redo"} /\ Ran
  /\ current_buffer(editor).rope # current_buffer(pre).rope
  => /\ editor.redo_stack = << >>
     /\ View(redo(editor)) = View(editor)

\* C3: an Insert session entered from Normal mode by set_mode(Insert) adds
\* exactly one snapshot, whatever insert_char, insert_newline and backspace
\* calls it contains, and one undo gives back the text from before it.
C3_InsertSessionOneSnapshot ==
  IsSome(session) /\ Ran
  => /\ Len(editor.undo_stack) = Unwrap(session).base + 1
     /\ current_buffer(undo(editor)).rope = Unwrap(session).content

\* C4: delete_to_motion with WordForward or WordBackward removes no line
\* break: the removed text has none and the number of lines stays the same.
C4_WordDeleteKeepsLines ==
  /\ last.op = "delete_to_motion" /\ Ran
  /\ last.args[1] \in {"WordForward", "WordBackward"}
  => /\ editor.ret # None => NL \notin Chars(Unwrap(editor.ret))
     /\ len_lines(current_buffer(editor).rope) = len_lines(current_buffer(pre).rope)

\* C5: when the motion leaves the cursor's offset where it is, delete_to_motion
\* returns nothing and changes nothing: text, modified flag, cursor, registers
\* and both stacks are as before.
C5_NoMotionNoChange ==
  /\ last.op = "delete_to_motion" /\ Ran
  /\ motion_span(pre, last.args[1])[1] = motion_span(pre, last.args[1])[2]
  => /\ editor.ret = None
     /\ editor = [pre EXCEPT !.ret = None]

\* C6: yank_to_motion writes to the unnamed register the text delete_to_motion
\* removes and returns from the same state; for WordForward and WordBackward
\* that text has no line break.
C6_YankSameTextAsDelete ==
  /\ last.op = "yank_to_motion" /\ Ran
  /\ motion_span(pre, last.args[1])[1] # motion_span(pre, last.args[1])[2]
  => /\ delete_to_motion_with_register(pre, last.args[1], last.args[2]).ret
          = Some(editor.register_manager.unnamed.content)
     /\ last.args[1] \in {"WordForward", "WordBackward"}
          => NL \notin Chars(editor.register_manager.unnamed.content)

\* where the removed text lay: it began at the cursor's offset when the motion
\* moved forward and ended there when it moved backward
RemovedAt(lo) ==
  current_buffer(pre).rope
    = Slice(current_buffer(editor).rope, 0, lo) \o Unwrap(editor.ret)
        \o From(current_buffer(editor).rope, lo)

\* C7: after a delete_to_motion that removed the span [lo, hi), the cursor is
\* at its line and column from before the call when the motion moved forward,
\* and at the position of offset lo when it moved backward.
C7_CursorAfterDelete ==
  last.op = "delete_to_motion" /\ Ran /\ editor.ret # None
  => LET start_idx == motion_span(pre, last.args[1])[1]
         end_idx == motion_span(pre, last.args[1])[2]
         r == current_buffer(editor).rope
         lo == IF start_idx < end_idx THEN start_idx
               ELSE start_idx - Len(Unwrap(editor.ret))
     IN /\ RemovedAt(lo)
        /\ IF start_idx < end_idx
           THEN /\ editor.cursor.line = pre.cursor.line
                /\ editor.cursor.column = pre.cursor.column
           ELSE /\ editor.cursor.line = char_to_line(r, lo)
                /\ editor.cursor.column = lo - line_to_char(r, char_to_line(r, lo))

\* a backward delete moved the cursor to another line
C7_BackwardDeleteAcrossLines ==
  /\ last.op = "delete_to_motion" /\ Ran /\ editor.ret # None
  /\ motion_span(pre, last.args[1])[1] > motion_span(pre, last.args[1])[2]
  /\ editor.cursor.line < pre.cursor.line

\* the contents of the numbered registers, register i at Numbered(i)
Numbered(i) == editor.register_manager.numbered[i + 1].content

\* the k-th update of the log shifts the numbered registers
Shifts(k) == log[k].kind \in {"set_unnamed", "set_unnamed_delete"}

\* every update so far was the given one
OnlyUpdates(kind) == Len(log) >= 1 /\ \A k \in 1..Len(log) : log[k].kind = kind

\* C8 as stated: after N >= 1 delete-type updates with contents c1..cN on a
\* fresh register manager, register 0 holds cN and register min(N-1, 9)
\* holds c1, for every N.
C8_FirstDeleteInLastRegister ==
  OnlyUpdates("set_unnamed")
  => /\ Numbered(0) = log[Len(log)].content
     /\ Numbered(Min(Len(log) - 1, 9)) = log[1].content

\* C8 amended: after N >= 1 delete-type updates register i holds c(N-i) for
\* every i up to min(N-1, 9); c1 is in register N-1 while N <= 10 and is
\* dropped by the eleventh update.
C8_RegistersHoldLatestDeletes ==
  OnlyUpdates("set_unnamed")
  => \A i \in 0..Min(Len(log) - 1, 9) : Numbered(i) = log[Len(log) - i].content

\* eleven delete-type updates have been made: the first text has left
\* register 9
C8_EleventhDelete ==
  /\ OnlyUpdates("set_unnamed")
  /\ Len(log) = 11
  /\ Numbered(9) = log[2].content

\* C9 as stated: after any interleaving of yank and delete updates registers
\* 1-9 hold only texts written by delete updates, and after yank updates
\* alone registers 1-9 are empty and register 0 holds the newest yank.
C9_OnlyDeletesInNumbered ==
  /\ \A i \in 1..9 :
       Numbered(i) # << >> => \E k \in 1..Len(log) : Shifts(k) /\ log[k].content = Numbered(i)
  /\ OnlyUpdates("set_unnamed_yank")
       => /\ \A i \in 1..9 : Numbered(i) = << >>
          /\ Numbered(0) = log[Len(log)].content

\* the register argument of the last call
RegisterArg ==
  CASE last.op \in {"yank_line", "delete_line", "delete_char_to_register"} -> last.args[1]
    [] last.op \in {"yank_to_motion", "delete_to_motion"} -> last.args[2]
    [] OTHER -> None

\* the text the last yank or delete call yielded, None when it yielded none
Yielded ==
  CASE last.op \in {"delete_line", "delete_to_motion", "delete_text_object",
                    "yank_text_object"} -> editor.ret
    [] last.op = "delete_char_to_register" ->
         IF editor.ret = None THEN None ELSE Some(<< Unwrap(editor.ret) >>)
    [] last.op = "yank_line" ->
         IF has_line(current_buffer(pre).rope, pre.cursor.line)
         THEN Some(line_content(pre, pre.cursor.line)) ELSE None
    [] last.op = "yank_to_motion" ->
         LET span == motion_span(pre, last.args[1])
         IN IF span[1] = span[2] THEN None
            ELSE Some(Slice(current_buffer(pre).rope, Min(span[1], span[2]),
                            Max(span[1], span[2])))
    [] OTHER -> None

\* C10: after every yank or delete call that yields text (yank_line,
\* yank_to_motion, yank_text_object, delete_line, delete_char_to_register,
\* delete_to_motion, delete_text_object) the unnamed register and register 0
\* both hold that text, and so does the named register when one was given.
C10_YieldedTextInRegisters ==
  Ran /\ Yielded # None
  => /\ editor.register_manager.unnamed.content = Unwrap(Yielded)
     /\ Numbered(0) = Unwrap(Yielded)
     /\ RegisterArg # None
          => LET got == RegisterManager_get(editor.register_manager, Unwrap(RegisterArg))
             IN got # None /\ Unwrap(got).content = Unwrap(Yielded)

\* the texts of the updates k..Len(log), one after the other
RECURSIVE Joined(_)
Joined(k) == IF k > Len(log) THEN << >> ELSE log[k].content \o Joined(k + 1)

\* the last update that wrote the lowercase name, 1 when there is none (the
\* first uppercase write then created the slot)
LastOverwrite ==
  LET ks == {k \in 1..Len(log) : log[k].name \in LowerLetters}
  IN IF ks = {} THEN 1 ELSE CHOOSE k \in ks : \A j \in ks : j <= k

\* C11: a set on an uppercase letter appends to the lowercase slot and creates
\* it when it is missing, a set on the lowercase letter overwrites: after the
\* sets so far get('a') and get('A') both return the texts written since the
\* last lowercase set, one after the other, with the linewise flag of the last
\* set.
C11_UppercaseAppends ==
  last.op = "set"
  => LET lower == RegisterManager_get(editor.register_manager, "a")
         upper == RegisterManager_get(editor.register_manager, "A")
     IN /\ lower # None
        /\ upper = lower
        /\ Unwrap(lower).content = Joined(LastOverwrite)
        /\ Unwrap(lower).linewise = log[Len(log)].linewise

\* set('a', s0) was followed by two sets on 'A', the last with another
\* linewise flag than the first
C11_TwoAppends ==
  /\ Len(log) = 3
  /\ log[1].name = "a" /\ log[2].name = "A" /\ log[3].name = "A"
  /\ log[3].linewise # log[1].linewise
  /\ Unwrap(RegisterManager_get(editor.register_manager, "a")).content
       = log[1].content \o log[2].content \o log[3].content

BufferMutators ==
  {"Buffer::insert", "Buffer::insert_char", "Buffer::remove", "Buffer::remove_char"}

\* C12: while a Buffer's read_only flag is set, insert, insert_char, remove and
\* remove_char with any arguments do nothing: the content and the modified
\* flag stay as they are and the call does not fail (remove_char returns None).
C12_ReadOnlyBufferUnchanged ==
  last.op \in BufferMutators /\ current_buffer(pre).read_only
  => /\ ~editor.crashed
     /\ current_buffer(editor) = current_buffer(pre)
     /\ editor.ret = None

\* a read-only buffer with text was asked to insert past its end, where a
\* writable buffer fails
C12_ReadOnlyCallPastEnd ==
  /\ last.op \in {"Buffer::insert", "Buffer::insert_char"}
  /\ current_buffer(pre).read_only
  /\ ~current_buffer(pre).modified
  /\ last.args[1] > Len(current_buffer(pre).rope)
  /\ current_buffer(pre).rope # << >>
  /\ ~editor.crashed

\* C13: while the active buffer's read_only flag is set, no call of the
\* Editor (substitute, undo and redo among them) changes the buffer's text or
\* clears the flag.
C13_ReadOnlyEditorUnchanged ==
  /\ Ran /\ last.op \notin {"new", "set_read_only"}
  /\ current_buffer(pre).read_only
  /\ pre.current_buffer \in DOMAIN editor.buffers
  => /\ editor.buffers[pre.current_buffer].rope = current_buffer(pre).rope
     /\ editor.buffers[pre.current_buffer].read_only

\* the words of the last command, << >> when the last call was another one
CommandWords == IF last.op = "execute_command" THEN last.args[1] ELSE << >>

C17_CycleFailsAlone ==
  /\ CommandWords # << >> /\ CommandWords[1] \in NextWords \cup PrevWords
  /\ Cardinality(DOMAIN pre.buffers) = 1
  => /\ is_err(editor.ret)
     /\ editor.current_buffer = pre.current_buffer

\* commands that are invalid: an unknown command, an unknown option, a buffer
\* id that is no number, a missing argument
InvalidCommands ==
  {<< "bogus" >>, << "set", "bogus" >>, << "b", "x" >>, << "bd", "x" >>, << "bd!", "x" >>,
   << "b" >>, << "buffer" >>, << "e" >>, << "edit" >>}

C14_CloseGuarded ==
  /\ /\ last.op = "delete_buffer"
     /\ last.args[1] \in DOMAIN pre.buffers
     /\ pre.buffers[last.args[1]].modified
     => /\ is_err(editor.ret)
        /\ editor.buffers = pre.buffers
        /\ editor.current_buffer = pre.current_buffer
  /\ last.op = "delete_buffer_force" /\ last.args[1] \in DOMAIN pre.buffers
     => is_ok(editor.ret) /\ last.args[1] \notin DOMAIN editor.buffers
  /\ last.op \in {"delete_buffer", "delete_buffer_force"} => DOMAIN editor.buffers # {}

\* the only open buffer, a modified one, was closed by force and a new one
\* took its place
C14_LastBufferForced ==
  /\ last.op = "delete_buffer_force"
  /\ DOMAIN pre.buffers = {last.args[1]}
  /\ pre.buffers[last.args[1]].modified
  /\ Cardinality(DOMAIN editor.buffers) = 1

\* C15: the active buffer id is the id of an open buffer, every open buffer
\* is kept under its own id, and ids are assigned in increasing order and
\* never again: a buffer the last call created has an id greater than that of
\* every buffer created before it, open or closed.
C15_BufferIds ==
  /\ editor.current_buffer \in DOMAIN editor.buffers
  /\ \A id \in DOMAIN editor.buffers :
       editor.buffers[id].id = id /\ id < editor.next_buffer_id
  /\ editor.next_buffer_id >= pre.next_buffer_id
  /\ \A id \in DOMAIN editor.buffers \ DOMAIN pre.buffers : id >= pre.next_buffer_id

\* a buffer was created after a buffer with a larger id than every open one
\* had been closed
C15_CreateAfterDelete ==
  /\ last.op \in {"create_new_buffer", "open_file"}
  /\ DOMAIN editor.buffers \ DOMAIN pre.buffers # {}
  /\ \A id \in DOMAIN pre.buffers : id + 1 < pre.next_buffer_id

\* the cursor a buffer of the Editor e has, or gets back when it becomes the
\* active one
CursorOf(e, id) == IF id = e.current_buffer THEN e.cursor ELSE remembered_cursor(e, id)

\* C19: one cursor is remembered per open buffer: a call that leaves buffer A
\* (switch_buffer, next_buffer, prev_buffer, create_new_buffer, open_file)
\* remembers the cursor A had, no call made while A is not the active buffer
\* changes what is remembered for A, and the call that makes A active again
\* makes the remembered cursor the active one.
C19_CursorPerBuffer ==
  Ran /\ last.op # "new"
  => \A id \in DOMAIN pre.buffers \cap DOMAIN editor.buffers :
       /\ id # pre.current_buffer => CursorOf(editor, id) = CursorOf(pre, id)
       /\ id = pre.current_buffer /\ id # editor.current_buffer
            => /\ id \in DOMAIN editor.buffer_cursors
               /\ editor.buffer_cursors[id] = pre.cursor

\* the Editor came back to a buffer it had left with the cursor away from the
\* origin
C19_BackWithCursor ==
  /\ last.op \in {"switch_buffer", "next_buffer", "prev_buffer"}
  /\ editor.current_buffer # pre.current_buffer
  /\ pre.current_buffer \in DOMAIN editor.buffers
  /\ editor.cursor # at_origin
  /\ editor.cursor = pre.buffer_cursors[editor.current_buffer]
  /\ pre.cursor # editor.cursor

\* the matches the search held before the call, and the offset of the
\* cursor it was called with
MatchesBefore == pre.search_state.matches
OffsetBefore == to_char_idx(last.args[1], current_buffer(pre).rope)
Later == {i \in 1..Len(MatchesBefore) : MatchesBefore[i] > OffsetBefore}
Earlier == {i \in 1..Len(MatchesBefore) : MatchesBefore[i] < OffsetBefore}
Least(S) == CHOOSE i \in S : \A j \in S : i <= j
Greatest(S) == CHOOSE i \in S : \A j \in S : i >= j

\* C20: in a Forward search calc_next_match returns the index of the first
\* match whose offset is greater than the cursor's offset; when there is
\* none it returns the index of the first match if there are two matches or
\* more, and None if there is one match or no match. calc_prev_match returns
\* the index of the last match whose offset is smaller than the cursor's;
\* when there is none it returns the index of the last match if there are
\* two or more, and None otherwise.
C20_NextAndPrevMatch ==
  /\ last.op \in {"SearchState::calc_next_match", "SearchState::calc_prev_match"}
  /\ pre.search_state.direction = "Forward"
  /\ ~editor.crashed
  => /\ MatchesBefore = << >> => editor.ret = None
     /\ MatchesBefore # << >> /\ last.op = "SearchState::calc_next_match"
        => editor.ret = IF Later # {} THEN Some(Least(Later) - 1)
                        ELSE IF Len(MatchesBefore) >= 2 THEN Some(0)
                        ELSE None
     /\ MatchesBefore # << >> /\ last.op = "SearchState::calc_prev_match"
        => editor.ret = IF Earlier # {} THEN Some(Greatest(Earlier) - 1)
                        ELSE IF Len(MatchesBefore) >= 2
                        THEN Some(Len(MatchesBefore) - 1)
                        ELSE None

\* with one match, at or before the cursor, calc_next_match found nothing
C20_SingleMatchBehind ==
  /\ last.op = "SearchState::calc_next_match"
  /\ pre.search_state.direction = "Forward"
  /\ ~editor.crashed
  /\ Len(MatchesBefore) = 1
  /\ Later = {}
  /\ editor.ret = None

\* the search the call was made on, looking the other way
Turned(s) ==
  [s EXCEPT !.direction = IF @ = "Forward" THEN "Backward" ELSE "Forward"]

\* C21: the direction of the search inverts next and prev: on the same
\* matches and the same cursor calc_next_match returns what calc_prev_match
\* returns in the other direction, and calc_prev_match what calc_next_match
\* returns in the other direction.
C21_DirectionInverts ==
  ~editor.crashed
  => /\ last.op = "SearchState::calc_next_match"
        => editor.ret = calc_prev_match(Turned(pre.search_state), last.args[1],
                                        current_buffer(pre))
     /\ last.op = "SearchState::calc_prev_match"
        => editor.ret = calc_next_match(Turned(pre.search_state), last.args[1],
                                        current_buffer(pre))

\* a Backward search where prev and next differ: calc_prev_match found the
\* match after the cursor
C21_BackwardPrevGoesOn ==
  /\ last.op = "SearchState::calc_prev_match"
  /\ pre.search_state.direction = "Backward"
  /\ ~editor.crashed
  /\ IsSome(editor.ret)
  /\ MatchesBefore[Unwrap(editor.ret) + 1] > OffsetBefore
  /\ editor.ret # calc_next_match(pre.search_state, last.args[1], current_buffer(pre))

\* the offsets at which the pattern occurs in the text, in ascending order
RECURSIVE OccurrencesFrom(_, _, _)
OccurrencesFrom(text, pattern, i) ==
  IF i > Len(text) THEN << >>
  ELSE IF occurs_at(text, pattern, i)
  THEN << i >> \o OccurrencesFrom(text, pattern, i + 1)
  ELSE OccurrencesFrom(text, pattern, i + 1)

\* C22: while a search pattern is active, the stored matches are the offsets
\* at which the pattern occurs in the present content of the active buffer,
\* in ascending order, whatever edit, undo, redo, substitute or buffer
\* switch has been made since.
C22_MatchesFollowBuffer ==
  ~editor.crashed /\ editor.search_state.pattern # << >>
  => editor.search_state.matches
       = OccurrencesFrom(current_buffer(editor).rope, editor.search_state.pattern, 0)

\* the text t from offset i on with every occurrence of pat, met from left
\* to right, turned into rep, and the number of those occurrences
RECURSIVE EachReplaced(_, _, _, _)
EachReplaced(t, pat, rep, i) ==
  IF i >= Len(t) THEN << >>
  ELSE IF occurs_at(t, pat, i) THEN rep \o EachReplaced(t, pat, rep, i + Len(pat))
  ELSE << t[i + 1] >> \o EachReplaced(t, pat, rep, i + 1)
RECURSIVE CountEach(_, _, _)
CountEach(t, pat, i) ==
  IF i >= Len(t) THEN 0
  ELSE IF occurs_at(t, pat, i) THEN 1 + CountEach(t, pat, i + Len(pat))
  ELSE CountEach(t, pat, i + 1)
Occurs(t, pat) == \E i \in 0..Len(t) : occurs_at(t, pat, i)
FirstAt(t, pat) == CHOOSE i \in 0..Len(t) : occurs_at(t, pat, i) /\ \A j \in 0..(i - 1) : ~occurs_at(t, pat, j)
FirstReplaced(t, pat, rep) ==
  IF ~Occurs(t, pat) THEN t
  ELSE SubSeq(t, 1, FirstAt(t, pat)) \o rep \o SubSeq(t, FirstAt(t, pat) + Len(pat) + 1, Len(t))
RECURSIVE Total(_)
Total(ns) == IF ns = << >> THEN 0 ELSE Head(ns) + Total(Tail(ns))

\* the lines before the call of replace_in_buffer, those after it, and the
\* line numbers (from 0) the call aimed at
LinesBefore == str_lines(current_buffer(pre).rope)
LinesAfter == str_lines(current_buffer(editor).rope)
Targeted(i) ==
  \/ last.args[4] = None
  \/ IsSome(last.args[4]) /\ i >= Unwrap(last.args[4])[1] /\ i < Unwrap(last.args[4])[2]
ReplacedIn(t) ==
  IF last.args[3] THEN CountEach(t, last.args[1], 0)
  ELSE IF Occurs(t, last.args[1]) THEN 1 ELSE 0

C24_ParseReturnsPieces ==
  last.op = "parse_substitute_command"
  => editor.ret = Some(<< last.args[1], last.args[2], last.args[3], last.args[4] >>)

\* the number of newlines the text ends in
RECURSIVE TrailingNewlines(_)
TrailingNewlines(t) ==
  IF t = << >> \/ t[Len(t)] # NL THEN 0
  ELSE 1 + TrailingNewlines(SubSeq(t, 1, Len(t) - 1))

\* the buffer was read from the file that the call before had saved
ReadBack ==
  /\ last.op = "Buffer::from_file"
  /\ log # << >>
  /\ log[Len(log)].content = current_buffer(pre).rope

WentRound ==
  /\ last.op = "Cursor::from_char_idx"
  /\ IsSome(pre.ret)
  /\ last.args[1] = Unwrap(pre.ret)

\* the cursor is on a line of the text, at one of its characters or at its
\* end
Inside(c, r) == c.line < len_lines(r) /\ c.column <= Len(line_text(r, c.line))

\* C26 as stated: for every buffer and every cursor from_char_idx of
\* to_char_idx of the cursor is the cursor.
C26_RoundTripOfEveryCursor ==
  WentRound => ~editor.crashed /\ editor.cursor = pre.cursor

\* C26, amended: for every buffer and every cursor on a line of the buffer,
\* at one of its characters or at its end, from_char_idx of to_char_idx of
\* the cursor has the line and the column of the cursor, and no preferred
\* column.
C26_RoundTripInside ==
  WentRound /\ Inside(pre.cursor, current_buffer(pre).rope)
  => /\ ~editor.crashed
     /\ editor.cursor = Cursor_new(pre.cursor.line, pre.cursor.column)

\* the cursor went round from the line break of a line that is not the last
C26_RoundFromLineBreak ==
  /\ WentRound
  /\ Inside(pre.cursor, current_buffer(pre).rope)
  /\ pre.cursor.line + 1 < len_lines(current_buffer(pre).rope)
  /\ pre.cursor.column = Len(line_text(current_buffer(pre).rope, pre.cursor.line))
  /\ pre.cursor.column > 0
  /\ editor.cursor.line = pre.cursor.line

\* the cursor of the Editor e is on a character of a line of the active
\* buffer, or at column 0 of an empty line
OnCharacter(e) ==
  /\ e.cursor.line < len_lines(current_buffer(e).rope)
  /\ e.cursor.column < Max(1, Len(line_text(current_buffer(e).rope, e.cursor.line)))

\* C27: in Normal mode the cursor is on a line of the active buffer and on a
\* character of it (column 0 if the line is empty): a call made in such a
\* state that leaves the Editor in Normal mode leaves it in such a state.
C27_NormalCursorOnCharacter ==
  /\ Ran /\ ~editor.crashed
  /\ pre.mode = "Normal" /\ OnCharacter(pre)
  /\ editor.mode = "Normal"
  => OnCharacter(editor)

\* the last call was Motion::Up or Motion::Down and moved the cursor to
\* another line
MovedVertically ==
  /\ last.op = "execute_motion"
  /\ last.args[1] \in {"Up", "Down"}
  /\ ~editor.crashed
  /\ editor.cursor.line # pre.cursor.line

\* the last column of the line the cursor is on
LastColumn(e) == Max(0, Len(line_text(current_buffer(e).rope, e.cursor.line)) - 1)

\* C28: a vertical move keeps the sticky column: it puts the cursor at the
\* preferred column, the column it was last placed at, or at the last column
\* of the line if that is smaller, and leaves the preferred column as it is;
\* so after a line shorter than the preferred column a longer line gets the
\* cursor back at the preferred column.
C28_VerticalMoveKeepsColumn ==
  MovedVertically /\ IsSome(pre.cursor.preferred_column)
  => /\ editor.cursor.column = Min(Unwrap(pre.cursor.preferred_column), LastColumn(editor))
     /\ editor.cursor.preferred_column = pre.cursor.preferred_column

\* the last call was a horizontal move of the motions, or of the Cursor
MotionAlongLine == last.op = "execute_motion" /\ last.args[1] \in {"Left", "Right"}
CursorAlongLine == last.op \in {"Cursor::move_left", "Cursor::move_right"}

\* the number of characters of the line of the cursor c, its line break
\* counted
LineLength(c, r) == IF c.line < len_lines(r) THEN Len(line(r, c.line)) ELSE 0

\* C29 as stated: Motion::Left, Motion::Right, Cursor::move_left and
\* Cursor::move_right, with every repeat count, leave the cursor on its line.
C29_HorizontalKeepsLine ==
  (MotionAlongLine \/ CursorAlongLine) /\ ~editor.crashed
  => editor.cursor.line = pre.cursor.line

\* C29, amended: Motion::Left and Motion::Right leave the cursor on its line.
\* Cursor::move_left leaves it on its line when the count is at most the
\* column or the line is the first one, and else puts it on the line before;
\* Cursor::move_right leaves it on its line when the count does not take it
\* past the last character of the line (the line break counted) or the line
\* is the last one, and else puts it at column 0 of the next line.
C29_HorizontalCrossesOneLine ==
  ~editor.crashed
  => /\ MotionAlongLine => editor.cursor.line = pre.cursor.line
     /\ last.op = "Cursor::move_left"
        => editor.cursor.line
             = IF last.args[1] <= pre.cursor.column \/ pre.cursor.line = 0
               THEN pre.cursor.line ELSE pre.cursor.line - 1
     /\ last.op = "Cursor::move_right"
        => IF \/ pre.cursor.column + last.args[1]
                   <= Max(0, LineLength(pre.cursor, current_buffer(pre).rope) - 1)
              \/ pre.cursor.line + 1 >= len_lines(current_buffer(pre).rope)
           THEN editor.cursor.line = pre.cursor.line
           ELSE editor.cursor.line = pre.cursor.line + 1 /\ editor.cursor.column = 0

\* Cursor::move_right went past the end of a line and on to the next line
C29_RightOntoNextLine ==
  /\ last.op = "Cursor::move_right"
  /\ last.args[1] > 0
  /\ editor.cursor.line = pre.cursor.line + 1
  /\ editor.cursor.column = 0

\* Backspace was pressed at the start of a line that is not the first one
BackspaceAtLineStart ==
  /\ \/ last.op = "backspace" /\ is_insert(pre.mode)
     \/ last.op = "execute_edit" /\ last.args[1] = "Backspace"
  /\ ~editor.crashed
  /\ ~current_buffer(pre).read_only
  /\ pre.cursor.column = 0
  /\ pre.cursor.line > 0
  /\ pre.cursor.line < len_lines(current_buffer(pre).rope)

\* C30: Backspace at column 0 of a line L > 0 removes the line break between
\* line L-1 and line L and nothing else, and leaves the cursor on line L-1
\* where the two lines were joined: at the column that is the length of line
\* L-1 without its line break.
C30_BackspaceJoinsLines ==
  BackspaceAtLineStart
  => /\ current_buffer(editor).rope
          = rope_remove(current_buffer(pre).rope,
                        line_to_char(current_buffer(pre).rope, pre.cursor.line) - 1,
                        line_to_char(current_buffer(pre).rope, pre.cursor.line))
     /\ editor.cursor.line = pre.cursor.line - 1
     /\ editor.cursor.column
          = Len(line_text(current_buffer(pre).rope, pre.cursor.line - 1))

\* TextObject::get_range has been asked for a text object; the text it was
\* asked in, and the range of the inner word there
AskedRange(obj) == last.op = "TextObject::get_range" /\ last.args[1] = obj
RangeText == current_buffer(pre).rope
InnerRange == get_range("InnerWord", pre.cursor, RangeText)

\* the character right after a range is a space
SpaceAfter(rng) == rng[2] < Len(RangeText) /\ RangeText[rng[2] + 1] = " "

\* C31: AroundWord resolves to InnerWord's range extended by exactly one
\* character when the character right after the run is a literal space, and
\* to exactly InnerWord's range otherwise (end of line, tab, punctuation, no
\* range at all).
C31_AroundWordExtends ==
  AskedRange("AroundWord") /\ get_range_ok("InnerWord", pre.cursor, RangeText) =>
    /\ ~editor.crashed
    /\ IF InnerRange = None THEN editor.ret = None
       ELSE editor.ret =
              Some(<< Unwrap(InnerRange)[1],
                      IF SpaceAfter(Unwrap(InnerRange))
                      THEN Unwrap(InnerRange)[2] + 1
                      ELSE Unwrap(InnerRange)[2] >>)

\* a word text object has been asked for, directly or by a delete or a yank
WordObjectCalls == {"TextObject::get_range", "delete_text_object", "yank_text_object"}
AskedWordOnEmptyLine ==
  /\ last.op \in WordObjectCalls
  /\ last.args[1] \in {"InnerWord", "AroundWord"}
  /\ has_line(RangeText, pre.cursor.line)
  /\ line_text(RangeText, pre.cursor.line) = << >>

\* C33: resolving a word text object never fails on an empty line: get_range
\* of InnerWord and AroundWord on an empty buffer or empty line returns no
\* range instead of aborting, and delete_text_object and yank_text_object then
\* leave the buffer unchanged.
C33_EmptyLineNoRange ==
  AskedWordOnEmptyLine =>
    /\ ~editor.crashed
    /\ editor.ret = None
    /\ current_buffer(editor).rope = RangeText

\* C32: a buffer never loses its file path through editing and undo: once
\* the active buffer has a file path, after any mutating Editor command
\* (substitute included), undo and redo it still has one, so that w without
\* argument never fails with "No file path set".
C32_FilePathKept ==
  IsSome(current_buffer(pre).file_path) /\ ~editor.crashed =>
    /\ IsSome(current_buffer(editor).file_path)
    /\ Buffer_save_ret(current_buffer(editor), TRUE) = Ok

\* the cursor of the previous state is on the last character of a word, and
\* blanks and then another word follow on the line: the blanks after the
\* cursor, and the length of the word after them
PreLine == line_text(current_buffer(pre).rope, pre.cursor.line)
BlanksAfter == Run(PreLine, pre.cursor.column + 1, is_whitespace)
WordAfter == Run(PreLine, pre.cursor.column + 1 + BlanksAfter, is_word_char)
OnWordEndBeforeWord ==
  /\ pre.cursor.column < Len(PreLine)
  /\ is_word_char(PreLine[pre.cursor.column + 1])
  /\ BlanksAfter >= 1
  /\ WordAfter >= 1

\* C34: word-end makes progress: applied at the last character of a word
\* that is followed by another word on the same line, Motion::WordEnd lands
\* on the last character of that following word.
C34_WordEndProgress ==
  /\ last.op = "execute_motion"
  /\ last.args[1] = "WordEnd"
  /\ OnWordEndBeforeWord
  => /\ editor.cursor.line = pre.cursor.line
     /\ editor.cursor.column = pre.cursor.column + BlanksAfter + WordAfter

\* Enter has been pressed on a pattern typed in the search mode m
Confirmed(m) ==
  /\ last.op = "handle_key_event"
  /\ last.args[1] = "Enter"
  /\ pre.mode = m
  /\ pre.command_line # << >>

\* C35: in the TUI a pattern typed in SearchBackward mode (entered with ?)
\* and confirmed with Enter starts the search with SearchDirection::Backward,
\* and one typed in SearchForward mode (/) starts it with Forward.
C35_SearchModeGivesDirection ==
  /\ Confirmed("SearchForward") =>
       /\ editor.search_state.pattern = pre.command_line
       /\ editor.search_state.direction = "Forward"
  /\ Confirmed("SearchBackward") =>
       /\ editor.search_state.pattern = pre.command_line
       /\ editor.search_state.direction = "Backward"

\* the calls that make another buffer the current one
SwitchCalls == {"switch_buffer", "next_buffer", "prev_buffer", "create_new_buffer",
                "open_file"}

\* undo has been called in a buffer right after a switch to it from another
\* buffer, in which the call before the switch had pushed a snapshot
UndoAfterSwitch ==
  /\ last.op = "undo"
  /\ Len(log) >= 3
  /\ log[Len(log) - 1].op \in SwitchCalls
  /\ log[Len(log) - 1].buffer # pre.current_buffer
  /\ log[Len(log) - 2].buffer = log[Len(log) - 1].buffer
  /\ log[Len(log) - 2].snapshot

\* C36: undo and redo change only the buffer in which the undone or redone
\* mutation was made: after a mutation in buffer A followed by a switch to
\* another buffer B, undo() leaves B's content, file path and flags unchanged.
C36_UndoKeepsOtherBuffer ==
  UndoAfterSwitch =>
    editor.buffers[pre.current_buffer] = pre.buffers[pre.current_buffer]

\* replace_in_buffer has been called with a pattern that is empty or occurs
\* in none of the lines it aimed at
NothingToReplace ==
  /\ last.op = "replace_in_buffer"
  /\ \/ last.args[1] = << >>
     \/ \A i \in 1..Len(LinesBefore) :
          Targeted(i - 1) => ~Occurs(LinesBefore[i], last.args[1])

\* C37: a substitute that replaces nothing changes nothing: when the pattern
\* is empty or does not occur in the targeted lines, replace_in_buffer
\* returns count 0 and leaves the buffer's content, modified flag and file
\* path exactly as they were.
C37_NothingReplacedNothingChanged ==
  NothingToReplace =>
    /\ editor.ret = 0
    /\ current_buffer(editor).rope = current_buffer(pre).rope
    /\ current_buffer(editor).modified = current_buffer(pre).modified
    /\ current_buffer(editor).file_path = current_buffer(pre).file_path

\* the offset of the cursor of an Editor, and the Editor after n calls of
\* search_next
Offset(e) == to_char_idx(e.cursor, current_buffer(e).rope)
RECURSIVE Nexts(_, _)
Nexts(e, n) == IF n = 0 THEN e ELSE search_next(Nexts(e, n - 1))

\* the offsets at which the pattern of an Editor occurs in its buffer
Occurrences(e) == OccurrencesFrom(current_buffer(e).rope, e.search_state.pattern, 0)

\* the Editor searches forward, its matches are those set_pattern finds in
\* its buffer as it is, the pattern occurs twice at least, and the cursor is
\* on an occurrence; the number (from 1) of that occurrence
OnMatch(e) ==
  /\ ~e.crashed
  /\ e.search_state.direction = "Forward"
  /\ e.search_state.pattern # << >>
  /\ e.search_state.matches = find_all_matches(e.search_state, current_buffer(e)).matches
  /\ Len(Occurrences(e)) >= 2
  /\ to_char_idx_ok(e.cursor, current_buffer(e).rope)
  /\ \E i \in 1..Len(Occurrences(e)) : Occurrences(e)[i] = Offset(e)
MatchUnder(e) == CHOOSE i \in 1..Len(Occurrences(e)) : Occurrences(e)[i] = Offset(e)

\* the n-th occurrence after the i-th, going round
MatchAfter(e, i, n) == Occurrences(e)[((i - 1 + n) % Len(Occurrences(e))) + 1]

\* C38: repeated search_next cycles through all matches: with k >= 2
\* matches, Forward direction and the cursor on a match, the n-th of k calls
\* of search_next puts the cursor on the n-th match after it, going round, so
\* that the k calls visit every match once in ascending cyclic order and end
\* on the starting match; search_prev directly after search_next returns the
\* cursor to the match it left.
C38_NextCyclesThroughMatches ==
  /\ OnMatch(editor) =>
       /\ \A n \in 1..Len(Occurrences(editor)) :
            /\ ~Nexts(editor, n).crashed
            /\ Offset(Nexts(editor, n)) = MatchAfter(editor, MatchUnder(editor), n)
       /\ Offset(search_prev(search_next(editor))) = Offset(editor)
  /\ last.op = "search_next" /\ OnMatch(pre) =>
       /\ ~editor.crashed
       /\ Offset(editor) = MatchAfter(pre, MatchUnder(pre), 1)
  /\ last.op = "search_prev" /\ OnMatch(pre) =>
       /\ ~editor.crashed
       /\ Offset(editor) = MatchAfter(pre, MatchUnder(pre), Len(Occurrences(pre)) - 1)

\* what Edit::DeleteWord and delete_to_motion(Motion::WordForward) make of
\* the Editor of the previous state
ByDeleteWord == execute_edit(pre, "DeleteWord", "b")
ByWordForward == delete_to_motion_with_register(pre, "WordForward", None)
DeletedWord ==
  \/ last.op = "execute_edit" /\ last.args[1] = "DeleteWord"
  \/ last.op = "delete_to_motion" /\ last.args[1] = "WordForward"

\* C39: Edit::DeleteWord and Editor::delete_to_motion(Motion::WordForward)
\* agree: from the same buffer content and cursor they remove the same text
\* and leave the same buffer content.
C39_DeleteWordAgrees ==
  DeletedWord =>
    /\ ByDeleteWord.crashed = ByWordForward.crashed
    /\ current_buffer(ByDeleteWord).rope = current_buffer(ByWordForward).rope

\* paste after the cursor has been called from a register that holds what
\* yank_line puts there for the line of the cursor
PastedYankedLine ==
  /\ last.op = "paste"
  /\ ~last.args[2]
  /\ has_line(current_buffer(pre).rope, pre.cursor.line)
  /\ RegisterManager_get(pre.register_manager, unwrap_or_unnamed(last.args[1]))
       = Some(Register_new(line_content(pre, pre.cursor.line), TRUE))
TextBefore == current_buffer(pre).rope
TextAfter == current_buffer(editor).rope

\* C40: yank_line followed by paste after the cursor duplicates the current
\* line, on any line of any buffer including a last line without trailing
\* newline: the line count grows by exactly one, every previously existing
\* line keeps its text, and the new line directly below the cursor line has
\* the yanked line's text.
C40_YankPasteDuplicatesLine ==
  PastedYankedLine =>
    /\ ~editor.crashed
    /\ len_lines(TextAfter) = len_lines(TextBefore) + 1
    /\ \A i \in 0..(len_lines(TextBefore) - 1) :
         line_text(TextAfter, IF i <= pre.cursor.line THEN i ELSE i + 1)
           = line_text(TextBefore, i)
    /\ line_text(TextAfter, pre.cursor.line + 1) = line_text(TextBefore, pre.cursor.line)

====
